---------------------------- MODULE Spec2Model ----------------------------
(***************************************************************************)
(* Dvorak-Typing: the line-fitting and input-matching engine.              *)
(*                                                                         *)
(* Two programs of the repository are modelled, selected by `prog`:        *)
(*   "engine" : the refactored v3 page (class TypingEngine / TypingUI /    *)
(*              App, src/unnamed/part_000)                                 *)
(*   "proto"  : the file-driven, timed three-line prototype (second        *)
(*              script of src/protomodel/proto-1/main.js, lines 687-1376)  *)
(*                                                                         *)
(* Strings are sequences of one-character strings; indices into a line are *)
(* 0-based as in the source (CharAt, MarkAt, SetMark convert).             *)
(***************************************************************************)
EXTENDS Integers, Sequences, FiniteSets, TLC

(***************************************************************************)
(* Bounds of the model                                                     *)
(***************************************************************************)
\* number of clock ticks the environment may take
MaxTicks == 1
\* most requestAnimationFrame callbacks of recalculateLayout queued at once
MaxRaf == 2
\* cap on engine.wordOffset (the engine can add past the end of the text)
MaxOffset == 4

(***************************************************************************)
(* Environment: clock, font metrics, viewports, texts                      *)
(***************************************************************************)
\* milliseconds per clock tick
TickMs == 12 * 1000
\* canvas measureText: advance width of one glyph / of the space, in px
GlyphPx == 120
SpacePx == 60

NULL == -1
\* value read from an array hole or past the end of an array
undefined == 2

Min(a, b) == IF a < b THEN a ELSE b
Max(a, b) == IF a > b THEN a ELSE b

\* window.innerWidth and the keyboard element's rect.width, per viewport
Viewports ==
  { [inner |-> 220,  kbd |-> 200],
    [inner |-> 1100, kbd |-> 1000] }

\* raw texts a file (or default.txt) may hold
TextAB     == <<"a", "\n", "b">>
TextAbcDef == <<"a", "b", "c", " ", "d", "e", "f">>
TextEmpty  == <<>>
RawTexts   == { TextAB, TextAbcDef, TextEmpty }

\* characters the user types (besides the space) when the character
\* expected is c: the expected one, one that occurs in the texts, and one
\* that occurs in none
Keys(c) == { "a", "x" } \cup ({c} \ {"", " "})

(***************************************************************************)
(* String helpers (JavaScript String / Array methods)                      *)
(***************************************************************************)
IsWs(c) == c \in { " ", "\n" }

RECURSIVE TrimLeft(_)
TrimLeft(s) == IF s # <<>> /\ IsWs(Head(s)) THEN TrimLeft(Tail(s)) ELSE s

RECURSIVE TrimRight(_)
TrimRight(s) ==
  IF s # <<>> /\ IsWs(s[Len(s)]) THEN TrimRight(SubSeq(s, 1, Len(s) - 1)) ELSE s

\* String.prototype.trim
Trim(s) == TrimRight(TrimLeft(s))

\* 0-based index of the first c at or after position from, -1 if none
IndexOf(s, c, from) ==
  IF \E i \in (from + 1)..Len(s) : s[i] = c
  THEN (CHOOSE i \in (from + 1)..Len(s) :
          s[i] = c /\ \A j \in (from + 1)..(i - 1) : s[j] # c) - 1
  ELSE -1

\* s.split(c) for a one-character separator: empty pieces are kept
RECURSIVE SplitOn(_, _)
SplitOn(s, c) ==
  LET i == IndexOf(s, c, 0)
  IN  IF i = -1 THEN <<s>>
      ELSE <<SubSeq(s, 1, i)>> \o SplitOn(SubSeq(s, i + 2, Len(s)), c)

\* s.split(/\s+/).filter(Boolean): the maximal runs of non-whitespace
RECURSIVE wordsFromText(_)
wordsFromText(s) ==
  LET t == TrimLeft(s)
  IN  IF t = <<>> THEN <<>>
      ELSE LET n == IF \E i \in 1..Len(t) : IsWs(t[i])
                    THEN CHOOSE i \in 1..Len(t) :
                           IsWs(t[i]) /\ \A j \in 1..(i - 1) : ~IsWs(t[j])
                    ELSE Len(t) + 1
           IN  <<SubSeq(t, 1, n - 1)>> \o wordsFromText(SubSeq(t, n, Len(t)))

\* words.join(' ')
RECURSIVE Join(_)
Join(ws) ==
  IF ws = <<>> THEN <<>>
  ELSE IF Len(ws) = 1 THEN ws[1]
  ELSE ws[1] \o <<" ">> \o Join(Tail(ws))

\* arr.filter(Boolean) on an array of strings: drops the empty strings
RECURSIVE FilterNonEmpty(_)
FilterNonEmpty(ws) ==
  IF ws = <<>> THEN <<>>
  ELSE IF Head(ws) = <<>> THEN FilterNonEmpty(Tail(ws))
  ELSE <<Head(ws)>> \o FilterNonEmpty(Tail(ws))

\* arr.slice(from): the elements from 0-based index from on
SliceFrom(a, from) == SubSeq(a, from + 1, Len(a))
\* arr.slice(0, n)
Take(a, n) == SubSeq(a, 1, Min(n, Len(a)))

\* s[i], 0-based; undefined past the end
CharAt(s, i) == IF i >= 0 /\ i < Len(s) THEN s[i + 1] ELSE ""

\* marks[i], 0-based; undefined past the end and in holes
MarkAt(m, i) == IF i >= 0 /\ i < Len(m) THEN m[i + 1] ELSE undefined

\* marks[i] = v, 0-based; writing past the end grows the array, leaving holes
SetMark(m, i, v) ==
  IF i < Len(m) THEN [m EXCEPT ![i + 1] = v]
  ELSE [j \in 1..(i + 1) |->
          IF j <= Len(m) THEN m[j] ELSE IF j = i + 1 THEN v ELSE undefined]

\* ctx.measureText(word).width
measureText(w) == Len(w) * GlyphPx

(***************************************************************************)
(* State                                                                   *)
(***************************************************************************)
VARIABLES
  prog,        \* which page is loaded: "engine" or "proto"
  now,         \* the clock read by performance.now()
  viewport,    \* current window.innerWidth / keyboard rect.width
  last,        \* the last handled event: [op, arg, type]
  user,        \* characters of the text the user has copied so far
  \* --- "engine": the page of src/unnamed/part_000
  engine,      \* the TypingEngine object
  ui,          \* the TypingUI object: what its textEl shows
  resizeTimer, \* the setTimeout of the resize listener is pending
  rafQueue,    \* requestAnimationFrame callbacks of recalculateLayout pending
  \* --- "proto": the page of proto-1/main.js
  main,        \* the script's globals, textEl being what #text shows
  rAf,         \* the resize listener's animation frame is pending
  fetchPending, \* the fetch of default.txt has not settled yet
  \* --- the functions applied on their own
  call,        \* the function last applied, its arguments and its result
  \* --- the keyboard in front of the page
  shiftHeld,   \* a physical Shift key is held down
  shiftUI      \* the Shift flags of the TypingUI object

envVars    == <<now, viewport>>
shiftVars  == <<shiftHeld, shiftUI>>
engineVars == <<engine, ui, resizeTimer, rafQueue>>
protoVars  == <<main, rAf, fetchPending>>
vars       == <<prog, shiftVars, call, last, user, envVars, engineVars,
                protoVars>>

\* contents of the #text element, abstracted to the kind of thing shown
Shown(kind) == [kind |-> kind, time |-> NULL, wpm |-> NULL]
Event(op, arg, type) == [op |-> op, arg |-> arg, type |-> type]
\* the TypingUI object after its constructor: what #text shows, and its
\* Shift flags
TypingUI == [textEl |-> Shown("initial")]
noShift  == [shiftActive |-> FALSE, shiftSticky |-> FALSE]
\* no function has been applied on its own: the arguments (the words, the
\* number of them in the line shown, the cursor, the width) and the result
\* (words, or a number of words)
noCall ==
  [fn |-> "none", raw |-> <<>>, words |-> <<>>, kept |-> 0, cursor |-> 0,
   width |-> 0, result |-> <<>>, count |-> 0]

(***************************************************************************)
(* TypingEngine (src/unnamed/part_000, lines 31-217)                       *)
(***************************************************************************)
\* constructor
TypingEngine ==
  [ sourceWords |-> <<>>, wordOffset |-> 0, currentText |-> <<>>,
    cursor |-> 0, status |-> <<>>,
    startTime |-> NULL, endTime |-> NULL, totalChars |-> 0 ]

resetTimer(e) == [e EXCEPT !.startTime = NULL, !.endTime = NULL]

reset(e) ==
  resetTimer([e EXCEPT !.sourceWords = <<>>, !.wordOffset = 0,
                       !.currentText = <<>>, !.cursor = 0, !.status = <<>>])

\* the words loadText collects from the lines of a text
RECURSIVE cleanBox(_)
cleanBox(lines) ==
  IF lines = <<>> THEN <<>>
  ELSE LET trimmed == Trim(Head(lines))
       IN  (IF trimmed = <<>> \/ Head(trimmed) = "#" THEN <<>>
            ELSE wordsFromText(trimmed)) \o cleanBox(Tail(lines))

\* loadText up to its call of this.prepareNextLine(0): TypingEngine has no
\* such method, so the call throws a TypeError and this is the state left
loadText(e, text) ==
  LET words == cleanBox(SplitOn(text, "\n"))
  IN  [e EXCEPT !.sourceWords = words,
                !.totalChars = Len(Join(words)),
                !.wordOffset = 0]

setLineData(e, wordsForLine) ==
  IF Len(wordsForLine) = 0
  THEN [e EXCEPT !.currentText = <<>>, !.status = <<>>]
  ELSE LET newText == Join(wordsForLine)
           c       == Min(e.cursor, Len(newText))
       IN  [e EXCEPT !.currentText = newText,
                     !.status = [i \in 1..Len(newText) |->
                                   IF i <= c THEN 1 ELSE 0],
                     !.cursor = c]

startTimerIfNeeded(e, t) ==
  IF e.startTime = NULL THEN [e EXCEPT !.startTime = t] ELSE e

\* inputChar, backspace and inputSpace give the engine after the call (e)
\* and the type of the returned object (type)

\* variant of inputChar that moves the cursor on a mismatch as well
inputCharAdvancing(e, char, t) ==
  IF e.currentText = <<>> THEN [e |-> e, type |-> "ignore"]
  ELSE IF e.cursor >= Len(e.currentText)
  THEN [e |-> e, type |-> IF char = "space" THEN "next-line" ELSE "ignore"]
  ELSE LET s == startTimerIfNeeded(e, t)
       IN  [e |-> [s EXCEPT !.status =
                              SetMark(s.status, s.cursor,
                                      IF char = CharAt(s.currentText, s.cursor)
                                      THEN 1 ELSE -1),
                            !.cursor = s.cursor + 1],
            type |-> IF char = CharAt(s.currentText, s.cursor) THEN "correct"
                     ELSE "wrong"]

\* variant of inputChar that starts the timer before it looks at the line
inputCharTimerFirst(e, char, t) ==
  LET s == startTimerIfNeeded(e, t)
  IN  IF s.currentText = <<>> THEN [e |-> s, type |-> "ignore"]
      ELSE IF s.cursor >= Len(s.currentText)
      THEN [e |-> s, type |-> IF char = "space" THEN "next-line" ELSE "ignore"]
      ELSE IF char = CharAt(s.currentText, s.cursor)
      THEN [e |-> [s EXCEPT !.status = SetMark(s.status, s.cursor, 1),
                            !.cursor = s.cursor + 1],
            type |-> "correct"]
      ELSE [e |-> [s EXCEPT !.status = SetMark(s.status, s.cursor, -1)],
            type |-> "wrong"]

inputChar(e, char, t) ==
  IF e.currentText = <<>> THEN [e |-> e, type |-> "ignore"]
  ELSE IF e.cursor >= Len(e.currentText)
  THEN [e |-> e, type |-> IF char = "space" THEN "next-line" ELSE "ignore"]
  ELSE LET s == startTimerIfNeeded(e, t)
       IN  IF char = CharAt(s.currentText, s.cursor)
           THEN [e |-> [s EXCEPT !.status = SetMark(s.status, s.cursor, 1),
                                 !.cursor = s.cursor + 1],
                 type |-> "correct"]
           ELSE [e |-> [s EXCEPT !.status = SetMark(s.status, s.cursor, -1)],
                 type |-> "wrong"]

backspace(e) ==
  IF e.cursor = 0 THEN [e |-> e, type |-> "ignore"]
  ELSE IF MarkAt(e.status, e.cursor) = -1
  THEN [e |-> [e EXCEPT !.status = SetMark(e.status, e.cursor, 0)],
        type |-> "delete"]
  ELSE [e |-> [e EXCEPT !.cursor = e.cursor - 1,
                        !.status = SetMark(e.status, e.cursor - 1, 0)],
        type |-> "delete"]

\* the loop of inputSpace that fills [from, to) with -1
RECURSIVE fillWrong(_, _, _)
fillWrong(status, from, to) ==
  IF from >= to THEN status
  ELSE fillWrong(SetMark(status, from, -1), from + 1, to)

inputSpace(e, t) ==
  IF e.currentText = <<>> THEN [e |-> e, type |-> "next-line"]
  ELSE LET s == startTimerIfNeeded(e, t)
       IN  IF s.cursor >= Len(s.currentText)
           THEN [e |-> s, type |-> "next-line"]
           ELSE IF CharAt(s.currentText, s.cursor) = " "
           THEN [e |-> [s EXCEPT !.status = SetMark(s.status, s.cursor, 1),
                                 !.cursor = s.cursor + 1],
                 type |-> "correct"]
           ELSE LET found        == IndexOf(s.currentText, " ", s.cursor)
                    nextSpaceIdx == IF found = -1 THEN Len(s.currentText)
                                    ELSE found
                    filled       == fillWrong(s.status, s.cursor, nextSpaceIdx)
                IN  IF nextSpaceIdx < Len(s.currentText)
                    THEN [e |-> [s EXCEPT
                                   !.status = SetMark(filled, nextSpaceIdx, 1),
                                   !.cursor = nextSpaceIdx + 1],
                          type |-> "skip-word"]
                    ELSE [e |-> [s EXCEPT !.status = filled,
                                          !.cursor = Len(s.currentText)],
                          type |-> "skip-word"]

\* (totalChars / 5) / (elapsed minutes), in tenths, rounded half up as
\* toFixed(1) prints it
wpmTenths(chars, elapsedMs) ==
  IF elapsedMs > 0 THEN (2 * chars * 120000 + elapsedMs) \div (2 * elapsedMs)
  ELSE 0

\* the null that getCompletionStats returns when the timer never started
noStats == [time |-> NULL, wpm |-> NULL]

\* noStats, or the statistics [time (ms), wpm (tenths)]
getCompletionStats(e, t) ==
  IF e.startTime = NULL \/ e.startTime = 0 THEN noStats
  ELSE LET end == IF e.endTime = NULL \/ e.endTime = 0 THEN t ELSE e.endTime
       IN  [time |-> end - e.startTime,
            wpm  |-> wpmTenths(e.totalChars, end - e.startTime)]

(***************************************************************************)
(* App and TypingUI (src/unnamed/part_000, lines 222-705)                  *)
(***************************************************************************)
\* the built-in text of loadDefaultText (shortened)
fallback == <<"a", " ", "b">>

\* TypingUI.renderAll: the prompt when there is no current text
renderAll(e) ==
  IF e.currentText = <<>> THEN Shown("prompt") ELSE Shown("lines")

\* the measuring loop of recalculateLayout: the number of words counted
RECURSIVE fitCount(_, _, _, _, _)
fitCount(words, i, widthSum, count, effective100) ==
  IF i >= Len(words) THEN count
  ELSE LET w         == measureText(words[i + 1])
           userCheck == IF count = 0 THEN w ELSE widthSum + SpacePx + w
       IN  IF 100 * userCheck < effective100
           THEN fitCount(words, i + 1, userCheck, count + 1, effective100)
           ELSE count

\* effectiveWidth of recalculateLayout, max(300, width * 0.95), in
\* hundredths of a pixel
effectiveWidth100(vp) ==
  LET containerWidth == IF vp.kbd = 0 THEN 800 ELSE vp.kbd
  IN  Max(30000, 95 * containerWidth)

\* the words recalculateLayout hands to setLineData; widths are compared
\* in hundredths of a pixel
wordsForLine(e, vp) ==
  LET effective100   == effectiveWidth100(vp)
      offset         == e.wordOffset
      counted        == fitCount(e.sourceWords, offset, 0, 0, effective100)
      count          == IF counted = 0 /\ offset < Len(e.sourceWords) THEN 1
                        ELSE counted
  IN  SubSeq(e.sourceWords, offset + 1, Min(offset + count, Len(e.sourceWords)))

\* App.startNewSession: loadText throws, so recalculateLayout is not reached
startNewSession(fullText) ==
  /\ prog = "engine"
  /\ engine' = loadText(reset(engine), fullText)
  /\ last' = Event("startNewSession", fullText, "")
  /\ UNCHANGED <<prog, shiftVars, call, user, envVars, ui, resizeTimer,
                 rafQueue, protoVars>>

\* the resize listener: clearTimeout, setTimeout(recalculateLayout, 100)
AppResize(vp) ==
  /\ prog = "engine"
  /\ viewport' = vp
  /\ resizeTimer' = TRUE
  /\ last' = Event("resize", "", "")
  /\ UNCHANGED <<prog, shiftVars, call, user, now, engine, ui, rafQueue,
                 protoVars>>

\* the timer fires: recalculateLayout requests an animation frame
AppResizeTimer ==
  /\ prog = "engine"
  /\ resizeTimer
  /\ rafQueue < MaxRaf
  /\ resizeTimer' = FALSE
  /\ rafQueue' = rafQueue + 1
  /\ last' = Event("recalculateLayout", "", "")
  /\ UNCHANGED <<prog, shiftVars, call, user, envVars, engine, ui, protoVars>>

\* the animation-frame callback of recalculateLayout
AppLayoutFrame ==
  /\ prog = "engine"
  /\ rafQueue > 0
  /\ rafQueue' = rafQueue - 1
  /\ engine' = setLineData(engine, wordsForLine(engine, viewport))
  /\ ui' = [ui EXCEPT !.textEl = renderAll(engine')]
  /\ last' = Event("layout", "", "")
  /\ UNCHANGED <<prog, shiftVars, call, user, envVars, resizeTimer, protoVars>>

\* variant of App.advanceLine that adds the words of the line twice
advanceLineTwice(e) ==
  LET added == Len(FilterNonEmpty(SplitOn(e.currentText, " ")))
      e2    == [e EXCEPT !.wordOffset = e.wordOffset + 2 * added]
  IN  /\ e2.wordOffset <= MaxOffset
      /\ engine' = e2
      /\ IF e2.wordOffset >= Len(e2.sourceWords)
         THEN LET stats == getCompletionStats(e2, now)
              IN  /\ ui' = IF stats = noStats THEN ui
                           ELSE [ui EXCEPT !.textEl =
                                   [kind |-> "complete", time |-> stats.time,
                                    wpm |-> stats.wpm]]
                  /\ rafQueue' = rafQueue
         ELSE /\ rafQueue < MaxRaf
              /\ rafQueue' = rafQueue + 1
              /\ ui' = ui

\* App.advanceLine on the engine e left by inputSpace
advanceLine(e) ==
  LET added == Len(FilterNonEmpty(SplitOn(e.currentText, " ")))
      e2    == [e EXCEPT !.wordOffset = e.wordOffset + added]
  IN  /\ e2.wordOffset <= MaxOffset
      /\ engine' = e2
      /\ IF e2.wordOffset >= Len(e2.sourceWords)
         THEN LET stats == getCompletionStats(e2, now)
              IN  \* stats.time of a null stats throws: nothing is shown
                  /\ ui' = IF stats = noStats THEN ui
                           ELSE [ui EXCEPT !.textEl =
                                   [kind |-> "complete", time |-> stats.time,
                                    wpm |-> stats.wpm]]
                  /\ rafQueue' = rafQueue
         ELSE /\ rafQueue < MaxRaf
              /\ rafQueue' = rafQueue + 1
              /\ ui' = ui

\* App.triggerInput with the character of a key
triggerInput(char) ==
  LET r == IF char = " " THEN inputSpace(engine, now)
           ELSE inputChar(engine, char, now)
  IN  /\ prog = "engine"
      /\ last' = Event("triggerInput", char, r.type)
      /\ IF r.type = "next-line" THEN advanceLine(r.e)
         ELSE /\ engine' = r.e
              /\ ui' = IF r.type = "skip-word"
                       THEN [ui EXCEPT !.textEl = renderAll(r.e)] ELSE ui
              /\ rafQueue' = rafQueue
      /\ UNCHANGED <<prog, shiftHeld, call, envVars, resizeTimer, protoVars>>

\* the keydown listener of the window for a one-character key
AppKeydown(char) == triggerInput(char) /\ UNCHANGED <<user, shiftUI>>

\* App.triggerBackspace
triggerBackspace ==
  LET r == backspace(engine)
  IN  /\ prog = "engine"
      /\ engine' = r.e
      /\ last' = Event("triggerBackspace",
                   IF MarkAt(engine.status, engine.cursor) = -1 THEN "wrong"
                   ELSE "", r.type)
      /\ UNCHANGED <<prog, shiftVars, call, user, envVars, ui, resizeTimer,
                     rafQueue, protoVars>>

(***************************************************************************)
(* proto-1/main.js (second script, lines 687-1376)                         *)
(***************************************************************************)
\* the built-in text of the page (shortened): a heading and one line
DEFAULT_TEXT_FALLBACK == <<"#", "#", " ", "h", "\n", "a", " ", "b">>

\* the script's globals as declared
Globals ==
  [ exercises |-> <<>>, sourceWords |-> <<>>, wordsOffset |-> 0,
    flatText |-> <<>>, cursor |-> 0, marks |-> <<>>, currentWordCount |-> 0,
    historyHTML |-> <<>>, nextPreview1 |-> <<>>, nextPreview2 |-> <<>>,
    typingStartTime |-> NULL, typingEndTime |-> NULL,
    shiftSticky |-> FALSE, shiftPhysical |-> FALSE,
    totalRequiredChars |-> 0,
    textEl |-> Shown("initial") ]

clamp(n, lo, hi) == Max(lo, Min(hi, n))

resetTypingMetrics(m) ==
  [m EXCEPT !.typingStartTime = NULL, !.typingEndTime = NULL]

ensureTypingStarted(m, t) ==
  IF m.typingStartTime = NULL THEN [m EXCEPT !.typingStartTime = t] ELSE m

\* markTypingCompleted: the globals after the call
markTypingCompleted(m, t) ==
  IF m.typingStartTime = NULL THEN m
  ELSE IF m.typingEndTime = NULL THEN [m EXCEPT !.typingEndTime = t]
  ELSE m

\* buildCompletionSummary on the globals left by markTypingCompleted:
\* noStats for the empty string, else the elapsed ms and the WPM in tenths
\* (NULL for "WPM cannot be computed")
buildCompletionSummary(m) ==
  IF m.typingStartTime = NULL THEN noStats
  ELSE LET elapsed == m.typingEndTime - m.typingStartTime
       IN  [time |-> elapsed,
            wpm  |-> IF m.totalRequiredChars <= 0 \/ elapsed <= 0 THEN NULL
                     ELSE wpmTenths(m.totalRequiredChars, elapsed)]

showStatusMessage(m, message) == [m EXCEPT !.textEl = Shown(message)]

\* /^##+\s+/ on a trimmed line
isHeading(line) ==
  \E k \in 2..(Len(line) - 1) :
    /\ \A j \in 1..k : line[j] = "#"
    /\ IsWs(line[k + 1])

\* flush of parseCompiledText: the blocks after it (a block is its lines)
flush(blocks, bucket) ==
  IF bucket # <<>> THEN Append(blocks, bucket) ELSE blocks

RECURSIVE parseLines(_, _, _)
parseLines(lines, bucket, blocks) ==
  IF lines = <<>> THEN flush(blocks, bucket)
  ELSE LET line == Trim(Head(lines))
       IN  IF line = <<>> THEN parseLines(Tail(lines), bucket, blocks)
           ELSE IF isHeading(line)
           THEN parseLines(Tail(lines), <<>>, flush(blocks, bucket))
           ELSE parseLines(Tail(lines), Append(bucket, line), blocks)

\* block.lines.join(' ')
RECURSIVE joinLines(_)
joinLines(ls) ==
  IF ls = <<>> THEN <<>>
  ELSE IF Len(ls) = 1 THEN ls[1]
  ELSE ls[1] \o <<" ">> \o joinLines(Tail(ls))

RECURSIVE blockTexts(_)
blockTexts(blocks) ==
  IF blocks = <<>> THEN <<>>
  ELSE LET text == joinLines(Head(blocks))
       IN  (IF Trim(text) # <<>> THEN <<text>> ELSE <<>>)
           \o blockTexts(Tail(blocks))

\* parseCompiledText: the texts of the blocks it returns
parseCompiledText(raw) ==
  LET parsed == parseLines(SplitOn(raw, "\n"), <<>>, <<>>)
      blocks == IF parsed = <<>> /\ Trim(raw) # <<>> THEN << <<Trim(raw)>> >>
                ELSE parsed
  IN  blockTexts(blocks)

getKeyboardWidth(vp) ==
  IF vp.kbd > 50 THEN vp.kbd ELSE Min(820, vp.inner - 16)

\* the loop of fitWordsToWidth: the count it ends with
RECURSIVE fitLoop(_, _, _, _, _)
fitLoop(words, i, cum, count, limitPx) ==
  IF i >= Len(words) THEN count
  ELSE LET wW   == measureText(words[i + 1])
           need == IF i = 0 THEN wW ELSE cum + SpacePx + wW
       IN  IF need <= limitPx THEN fitLoop(words, i + 1, need, i + 1, limitPx)
           ELSE count

\* fitWordsToWidth without its floor of one word
fitWordsToWidthUnfloored(words, limitPx) ==
  Take(words, fitLoop(words, 0, 0, 0, limitPx))

fitWordsToWidth(words, limitPx) ==
  Take(words, Max(1, fitLoop(words, 0, 0, 0, limitPx)))

fitWordsToWidthWithMinimum(words, limitPx, minimum) ==
  IF Len(words) = 0 THEN <<>>
  ELSE LET result == fitWordsToWidth(words, limitPx)
       IN  IF Len(result) >= minimum THEN result
           ELSE Take(words, Min(Len(words), Max(minimum, 1)))

\* minWordsToKeepForCursor counting only the words with a character in the
\* prefix
minWordsToKeepForCursorCovered(text, caret) ==
  Len(FilterNonEmpty(SplitOn(Take(text, caret), " ")))

minWordsToKeepForCursor(text, caret) ==
  LET prefix == Take(text, caret)
  IN  IF prefix = <<>> THEN 0 ELSE Len(SplitOn(prefix, " "))

futureWordsPool(m) == SliceFrom(m.sourceWords, m.wordsOffset)

\* renderText: the status line only when there is nothing else to show
renderText(m) ==
  [m EXCEPT !.textEl =
     IF m.historyHTML # <<>> \/ m.flatText # <<>>
        \/ m.nextPreview1 # <<>> \/ m.nextPreview2 # <<>>
     THEN Shown("lines") ELSE Shown("all-done")]

\* rebuildMarks of layoutThreeLines
rebuildMarks(flat, cur, prevMarks) ==
  [j \in 1..Len(flat) |->
     IF j - 1 < cur THEN (IF MarkAt(prevMarks, j - 1) = -1 THEN -1 ELSE 1)
     ELSE 0]

layoutThreeLines(m, vp) ==
  LET targetWidth == Max(320, (82 * getKeyboardWidth(vp)) \div 100)
      poolWords   == futureWordsPool(m)
  IN  IF poolWords = <<>>
      THEN renderText([m EXCEPT !.flatText = <<>>, !.currentWordCount = 0,
                                !.marks = <<>>, !.nextPreview1 = <<>>,
                                !.nextPreview2 = <<>>])
      ELSE LET oldCursor     == m.cursor
               minKeep       == minWordsToKeepForCursor(m.flatText, oldCursor)
               currentWords  == fitWordsToWidthWithMinimum(
                                  poolWords, targetWidth, Max(1, minKeep))
               flat          == Join(currentWords)
               cur           == IF oldCursor > Len(flat) THEN Len(flat)
                                ELSE oldCursor
               afterCurrent  == SliceFrom(poolWords, Len(currentWords))
               preview1Words == fitWordsToWidth(afterCurrent, targetWidth)
               afterPreview1 == SliceFrom(afterCurrent, Len(preview1Words))
               preview2Words == fitWordsToWidth(afterPreview1, targetWidth)
           IN  renderText([m EXCEPT
                 !.currentWordCount = Len(currentWords),
                 !.flatText = flat,
                 !.cursor = cur,
                 !.marks = rebuildMarks(flat, cur, m.marks),
                 !.nextPreview1 = Join(preview1Words),
                 !.nextPreview2 = Join(preview2Words)])

\* totalChars of prepareSource: the word lengths plus the separators
RECURSIVE sumLengths(_)
sumLengths(ws) == IF ws = <<>> THEN 0 ELSE Len(Head(ws)) + sumLengths(Tail(ws))

\* flattened of prepareSource: the words of all exercises in order
RECURSIVE flattenWords(_)
flattenWords(set) ==
  IF set = <<>> THEN <<>>
  ELSE wordsFromText(Head(set)) \o flattenWords(Tail(set))

prepareSource(m) ==
  IF m.exercises = <<>> THEN [m EXCEPT !.sourceWords = <<>>]
  ELSE LET flattened == flattenWords(m.exercises)
       IN  [m EXCEPT !.sourceWords = flattened,
                     !.totalRequiredChars =
                        IF flattened # <<>>
                        THEN sumLengths(flattened) + Max(Len(flattened) - 1, 0)
                        ELSE 0]

pickSentence(m, vp) ==
  IF m.exercises = <<>> THEN showStatusMessage(m, "select-text")
  ELSE LET p == prepareSource(m)
       IN  IF p.sourceWords = <<>> THEN showStatusMessage(p, "no-lines")
           ELSE layoutThreeLines(
                  [p EXCEPT !.wordsOffset = 0, !.cursor = 0, !.marks = <<>>,
                            !.currentWordCount = 0, !.historyHTML = <<>>], vp)

applyDataset(m, blocks, vp) ==
  LET a == [resetTypingMetrics(m) EXCEPT
              !.exercises = blocks, !.wordsOffset = 0, !.cursor = 0,
              !.marks = <<>>, !.currentWordCount = 0, !.historyHTML = <<>>,
              !.totalRequiredChars = 0]
  IN  IF a.exercises = <<>> THEN showStatusMessage(a, "no-text")
      ELSE pickSentence(a, vp)

\* the branch of loadFromFile and of loadDefaultText that gives up the text
noDataset(m) ==
  showStatusMessage(
    [resetTypingMetrics(m) EXCEPT !.exercises = <<>>,
                                  !.totalRequiredChars = 0],
    "select-file")

\* applyText of loadDefaultText: throws on an empty dataset
applyTextThrows(text) == parseCompiledText(text) = <<>>

\* the catch handler of loadDefaultText
defaultTextCatch(m, vp) ==
  IF ~applyTextThrows(DEFAULT_TEXT_FALLBACK)
  THEN applyDataset(m, parseCompiledText(DEFAULT_TEXT_FALLBACK), vp)
  ELSE noDataset(m)

\* buildCurrentLineHTMLWithoutCursor: one <span> per character of the line;
\* the history keeps the characters, the class names are left out
buildCurrentLineHTMLWithoutCursor(m) == m.flatText

onChar(m, input, t) ==
  IF CharAt(m.flatText, m.cursor) = "" THEN m
  ELSE LET s == ensureTypingStarted(m, t)
       IN  IF CharAt(s.flatText, s.cursor) = input
           THEN renderText([s EXCEPT
                  !.marks = SetMark(s.marks, s.cursor, 1),
                  !.cursor = clamp(s.cursor + 1, 0, Len(s.flatText))])
           ELSE renderText([s EXCEPT
                  !.marks = SetMark(s.marks, s.cursor, -1)])

\* variant of onBackspace that steps back without clearing the mark
onBackspaceKeepingMark(m) ==
  IF MarkAt(m.marks, m.cursor) = -1
  THEN renderText([m EXCEPT !.marks = SetMark(m.marks, m.cursor, 0)])
  ELSE IF m.cursor > 0 THEN renderText([m EXCEPT !.cursor = m.cursor - 1])
  ELSE m

onBackspace(m) ==
  IF MarkAt(m.marks, m.cursor) = -1
  THEN renderText([m EXCEPT !.marks = SetMark(m.marks, m.cursor, 0)])
  ELSE IF m.cursor > 0
  THEN renderText([m EXCEPT !.cursor = m.cursor - 1,
                            !.marks = SetMark(m.marks, m.cursor - 1, 0)])
  ELSE m

\* variant of advanceLine of the proto page that adds no words
protoAdvanceLineStaying(m, t, vp) ==
  layoutThreeLines(
    [m EXCEPT !.historyHTML = buildCurrentLineHTMLWithoutCursor(m),
              !.cursor = 0, !.marks = <<>>, !.currentWordCount = 0], vp)

\* advanceLine of the proto page
protoAdvanceLine(m, t, vp) ==
  LET a == [m EXCEPT !.historyHTML = buildCurrentLineHTMLWithoutCursor(m),
                     !.wordsOffset = m.wordsOffset + m.currentWordCount,
                     !.cursor = 0, !.marks = <<>>, !.currentWordCount = 0]
  IN  IF a.wordsOffset >= Len(a.sourceWords)
      THEN LET c == markTypingCompleted(
                      renderText([a EXCEPT !.flatText = <<>>,
                                           !.nextPreview1 = <<>>,
                                           !.nextPreview2 = <<>>]), t)
               summary == buildCompletionSummary(c)
           IN  [c EXCEPT !.textEl = [kind |-> "complete",
                                     time |-> summary.time,
                                     wpm  |-> summary.wpm]]
      ELSE layoutThreeLines(a, vp)

\* the loop of handleSpaceKey over [from, to): wrong unless already correct
RECURSIVE skipMarks(_, _, _)
skipMarks(mk, from, to) ==
  IF from >= to THEN mk
  ELSE skipMarks(IF MarkAt(mk, from) # 1 THEN SetMark(mk, from, -1) ELSE mk,
                 from + 1, to)

\* the word skip of handleSpaceKey, up to its test of the line end
skipWord(s) ==
  LET nextSpace == IndexOf(s.flatText, " ", s.cursor)
      end       == IF nextSpace = -1 THEN Len(s.flatText) ELSE nextSpace
      skipped   == skipMarks(s.marks, s.cursor, end)
  IN  IF nextSpace # -1
      THEN [s EXCEPT !.marks = IF nextSpace < Len(skipped)
                               THEN SetMark(skipped, nextSpace, 1)
                               ELSE skipped,
                     !.cursor = Min(nextSpace + 1, Len(s.flatText))]
      ELSE [s EXCEPT !.marks = skipped, !.cursor = end]

handleSpaceKey(m, t, vp) ==
  IF Len(m.flatText) = 0 THEN m
  ELSE LET s == ensureTypingStarted(m, t)
       IN  IF s.cursor = Len(s.flatText) THEN protoAdvanceLine(s, t, vp)
           ELSE IF CharAt(s.flatText, s.cursor) = " " THEN onChar(s, " ", t)
           ELSE LET k == skipWord(s)
                IN  IF k.cursor >= Len(k.flatText)
                    THEN protoAdvanceLine(k, t, vp)
                    ELSE renderText(k)

\* the branch handleSpaceKey takes, as the event type
spaceKeyType(m) ==
  IF Len(m.flatText) = 0 THEN "ignore"
  ELSE IF m.cursor = Len(m.flatText) THEN "next-line"
  ELSE IF CharAt(m.flatText, m.cursor) = " " THEN "correct"
  ELSE "skip-word"

\* the branch onChar takes, as the event type
charType(m, input) ==
  IF CharAt(m.flatText, m.cursor) = "" THEN "ignore"
  ELSE IF CharAt(m.flatText, m.cursor) = input THEN "correct"
  ELSE "wrong"

\* the animation-frame callback of onResize
resizeFrame(m, vp) ==
  LET typedCount == m.cursor
      l          == layoutThreeLines(m, vp)
      c          == clamp(typedCount, 0, Len(l.flatText))
  IN  renderText([l EXCEPT
        !.cursor = c,
        !.marks = [j \in 1..Max(Len(l.marks), Len(l.flatText)) |->
                     IF j <= Len(l.flatText)
                     THEN (IF j - 1 < c THEN 1 ELSE 0)
                     ELSE l.marks[j]]])

(***************************************************************************)
(* Events of the proto page                                                *)
(***************************************************************************)
protoFrame == <<prog, shiftVars, call, user, envVars, engineVars>>

\* keydown with a one-character key other than the space
keydownChar(k) ==
  /\ prog = "proto"
  /\ main' = onChar(main, k, now)
  /\ last' = Event("onChar", k, charType(main, k))
  /\ UNCHANGED <<protoFrame, rAf, fetchPending>>

\* keydown with the space key
keydownSpace ==
  /\ prog = "proto"
  /\ main' = handleSpaceKey(main, now, viewport)
  /\ last' = Event("handleSpaceKey", " ", spaceKeyType(main))
  /\ UNCHANGED <<protoFrame, rAf, fetchPending>>

\* keydown with Backspace
keydownBackspace ==
  /\ prog = "proto"
  /\ main' = onBackspace(main)
  /\ last' = Event("onBackspace",
                   IF MarkAt(main.marks, main.cursor) = -1 THEN "wrong"
                   ELSE "", "")
  /\ UNCHANGED <<protoFrame, rAf, fetchPending>>

\* the resize listener: cancelAnimationFrame, requestAnimationFrame
onResize(vp) ==
  /\ prog = "proto"
  /\ viewport' = vp
  /\ rAf' = TRUE
  /\ last' = Event("resize", "", "")
  /\ UNCHANGED <<prog, shiftVars, call, user, now, engineVars, main,
                 fetchPending>>

\* the requested animation frame runs
onResizeFrame ==
  /\ prog = "proto"
  /\ rAf
  /\ rAf' = FALSE
  /\ main' = resizeFrame(main, viewport)
  /\ last' = Event("layout", "", "")
  /\ UNCHANGED <<protoFrame, fetchPending>>

\* reader.onload of loadFromFile with the text of the chosen file
loadFromFile(text) ==
  /\ prog = "proto"
  /\ main' = applyDataset(main, parseCompiledText(text), viewport)
  /\ last' = Event("loadFromFile", "", "")
  /\ UNCHANGED <<protoFrame, rAf, fetchPending>>

\* the change event of the file picker without a file
loadFromFileNone ==
  /\ prog = "proto"
  /\ main' = noDataset(main)
  /\ last' = Event("loadFromFile", "", "none")
  /\ UNCHANGED <<protoFrame, rAf, fetchPending>>

\* the fetch of default.txt resolves with a text
defaultTextLoaded(text) ==
  /\ prog = "proto"
  /\ fetchPending
  /\ fetchPending' = FALSE
  /\ main' = IF applyTextThrows(text) THEN defaultTextCatch(main, viewport)
             ELSE applyDataset(main, parseCompiledText(text), viewport)
  /\ last' = Event("loadDefaultText", "",
                   IF applyTextThrows(text) THEN "empty" ELSE "loaded")
  /\ UNCHANGED <<protoFrame, rAf>>

\* the fetch of default.txt fails
defaultTextFailed ==
  /\ prog = "proto"
  /\ fetchPending
  /\ fetchPending' = FALSE
  /\ main' = defaultTextCatch(main, viewport)
  /\ last' = Event("loadDefaultText", "", "failed")
  /\ UNCHANGED <<protoFrame, rAf>>

(***************************************************************************)
(* src/main.js: the page with the built-in exercises and two previews      *)
(***************************************************************************)
\* the six English exercise sentences (shortened to a word each); the mode
\* select stays at 'en'
EXERCISES_EN == << <<"a">>, <<"b">>, <<"c">>, <<"a">>, <<"b">>, <<"c">> >>

\* the script's globals as declared; initFrame is the animation frame that
\* init requests for pickSentence
GlobalsPreview ==
  [ set |-> EXERCISES_EN, sentenceIndex |-> 0, sourceWords |-> <<>>,
    wordsOffset |-> 0, flatText |-> <<>>, cursor |-> 0, marks |-> <<>>,
    line1WordCount |-> 0, line2WordCount |-> 0, historyHTML |-> <<>>,
    nextPreview1 |-> <<>>, nextPreview1Words |-> 0,
    nextPreview2 |-> <<>>, nextPreview2Words |-> 0,
    activeRow |-> 1, centeredMode |-> FALSE, adoptNextAsCurrent |-> 0,
    shiftSticky |-> FALSE, shiftPhysical |-> FALSE,
    initFrame |-> TRUE, textEl |-> Shown("initial") ]

currentSet(m) == m.set

\* the orders shuffle(set) may leave: as it was, or reversed
Shuffles(set) == { set, [i \in 1..Len(set) |-> set[Len(set) + 1 - i]] }

\* three sentences of the set from index from, as words
threeFrom(set, from) ==
  SplitOn(Join(<< set[(from % Len(set)) + 1], set[((from + 1) % Len(set)) + 1],
                  set[((from + 2) % Len(set)) + 1] >>), " ")

futureWordsPoolPreview(m) ==
  SliceFrom(m.sourceWords, m.wordsOffset)
    \o threeFrom(currentSet(m), m.sentenceIndex + 3)

\* a preview line of layoutThreeLines: the words of rest that fit
previewWords(rest, kbw) ==
  IF rest # <<>>
  THEN Take(rest, Min(Len(fitWordsToWidth(rest, kbw)), Len(rest)))
  ELSE <<>>

\* the marks layoutThreeLines rebuilds: correct left of the old cursor
newMarks(flat, oldCursor) ==
  [j \in 1..Len(flat) |-> IF j - 1 < Min(oldCursor, Len(flat)) THEN 1 ELSE 0]

layoutThreeLinesPreview(m, vp) ==
  LET kbw       == getKeyboardWidth(vp)
      pool      == futureWordsPoolPreview(m)
      minKeep   == minWordsToKeepForCursor(m.flatText, m.cursor)
      oldCursor == m.cursor
      capped(flat) == IF oldCursor > Len(flat) THEN Len(flat) ELSE oldCursor
  IN  IF m.activeRow = 1
      THEN LET fit1   == fitWordsToWidth(pool, kbw)
               count  == Min(Max(minKeep, Len(fit1)), Max(1, Len(pool)))
               flat   == Join(Take(pool, count))
               after1 == SliceFrom(pool, count)
               line2  == previewWords(after1, kbw)
               after2 == SliceFrom(after1, Len(line2))
               line3  == previewWords(after2, kbw)
           IN  [m EXCEPT !.line1WordCount = count, !.flatText = flat,
                         !.cursor = capped(flat),
                         !.marks = newMarks(flat, oldCursor),
                         !.nextPreview1 = Join(line2),
                         !.nextPreview1Words = Len(line2),
                         !.nextPreview2 = Join(line3),
                         !.nextPreview2Words = Len(line3),
                         !.textEl = Shown("lines")]
      ELSE LET fit2   == fitWordsToWidth(pool, kbw)
               prefer == m.nextPreview1Words
               count  ==
                 IF m.adoptNextAsCurrent = 1
                 THEN Min(m.nextPreview1Words, Max(1, Len(pool)))
                 ELSE IF m.adoptNextAsCurrent = 2
                 THEN Min(m.nextPreview2Words, Max(1, Len(pool)))
                 ELSE Min(Max(IF prefer > 0 THEN prefer ELSE minKeep,
                              Len(fit2)), Max(1, Len(pool)))
               flat   ==
                 IF m.adoptNextAsCurrent = 1 THEN m.nextPreview1
                 ELSE IF m.adoptNextAsCurrent = 2 THEN m.nextPreview2
                 ELSE Join(Take(pool, count))
               line3  == previewWords(SliceFrom(pool, count), kbw)
           IN  [m EXCEPT !.line2WordCount = count, !.flatText = flat,
                         !.adoptNextAsCurrent = 0,
                         !.nextPreview1Words =
                            IF m.adoptNextAsCurrent = 2 THEN @ ELSE 0,
                         !.nextPreview2 = Join(line3),
                         !.nextPreview2Words =
                            IF m.adoptNextAsCurrent = 1 THEN @ ELSE Len(line3),
                         !.cursor = capped(flat),
                         !.marks = newMarks(flat, oldCursor),
                         !.textEl = Shown("lines")]

\* prepareSource with the order shuffled that shuffle leaves
prepareSourcePreview(m, shuffled) ==
  LET set == IF m.sentenceIndex = 0 THEN shuffled ELSE currentSet(m)
  IN  [m EXCEPT !.set = set,
                !.sourceWords = threeFrom(set, m.sentenceIndex)]

pickSentencePreview(m, shuffled, vp) ==
  LET p == prepareSourcePreview(m, shuffled)
  IN  layoutThreeLinesPreview(
        [p EXCEPT !.wordsOffset = 0, !.cursor = 0, !.marks = <<>>,
                  !.historyHTML = IF p.centeredMode THEN @ ELSE <<>>,
                  !.activeRow = IF p.centeredMode THEN 2 ELSE 1], vp)

nextSentence(m, shuffled, vp) ==
  pickSentencePreview(
    [m EXCEPT !.sentenceIndex = (m.sentenceIndex + 3) % Len(currentSet(m))],
    shuffled, vp)

\* the snapshot of the line for the history row, of which only its being
\* empty or not is kept
buildCurrentLineHTMLWithoutCursorPreview(m) ==
  IF m.flatText = <<>> THEN <<>> ELSE <<"<span>">>

advanceLinePreview(m, shuffled, vp) ==
  LET h == [m EXCEPT !.historyHTML =
                      buildCurrentLineHTMLWithoutCursorPreview(m)]
      a == IF h.activeRow = 1
           THEN [h EXCEPT !.wordsOffset = h.wordsOffset + h.line1WordCount,
                          !.activeRow = 2, !.centeredMode = TRUE,
                          !.adoptNextAsCurrent = 1]
           ELSE [h EXCEPT !.wordsOffset = h.wordsOffset + h.line2WordCount,
                          !.adoptNextAsCurrent = 2]
      c == [a EXCEPT !.cursor = 0, !.marks = <<>>]
  IN  IF c.wordsOffset >= Len(c.sourceWords)
      THEN nextSentence(c, shuffled, vp)
      ELSE layoutThreeLinesPreview(c, vp)

onCharPreview(m, input) ==
  LET expected == CharAt(m.flatText, m.cursor)
  IN  IF expected = "" THEN m
      ELSE IF expected = input
      THEN [m EXCEPT !.marks = SetMark(m.marks, m.cursor, 1),
                     !.cursor = clamp(m.cursor + 1, 0, Len(m.flatText))]
      ELSE [m EXCEPT !.marks = SetMark(m.marks, m.cursor, -1)]

onBackspacePreview(m) ==
  IF MarkAt(m.marks, m.cursor) = -1
  THEN [m EXCEPT !.marks = SetMark(m.marks, m.cursor, 0)]
  ELSE IF m.cursor > 0
  THEN [m EXCEPT !.cursor = m.cursor - 1,
                 !.marks = SetMark(m.marks, m.cursor - 1, 0)]
  ELSE m

\* the animation-frame callback of onResize
resizeFramePreview(m, vp) ==
  LET typedCount == m.cursor
      l          == layoutThreeLinesPreview(m, vp)
      c          == clamp(typedCount, 0, Len(l.flatText))
  IN  [l EXCEPT !.cursor = c,
                !.marks = [j \in 1..Len(l.flatText) |->
                             IF j - 1 < c THEN 1 ELSE 0]]

(***************************************************************************)
(* Events of the page of src/main.js                                       *)
(***************************************************************************)
previewFrame == <<prog, shiftVars, call, user, envVars, engineVars,
                  fetchPending>>

\* the animation frame requested by init: pickSentence
pickSentenceFrame ==
  /\ prog = "preview"
  /\ main.initFrame
  /\ \E shuffled \in Shuffles(currentSet(main)) :
       main' = pickSentencePreview([main EXCEPT !.initFrame = FALSE],
                                   shuffled, viewport)
  /\ last' = Event("pickSentence", "", "")
  /\ UNCHANGED <<previewFrame, rAf>>

\* the keydown listener for a one-character key other than the space
previewKeydownChar(k) ==
  /\ prog = "preview"
  /\ main' = onCharPreview(main, k)
  /\ last' = Event("onChar", k, charType(main, k))
  /\ UNCHANGED <<previewFrame, rAf>>

\* the keydown listener for the space: advanceLine at the end of the line
previewKeydownSpace ==
  /\ prog = "preview"
  /\ IF main.cursor = Len(main.flatText)
     THEN /\ \E shuffled \in Shuffles(currentSet(main)) :
               main' = advanceLinePreview(main, shuffled, viewport)
          /\ last' = Event("advanceLine", " ", "next-line")
     ELSE /\ main' = onCharPreview(main, " ")
          /\ last' = Event("onChar", " ", charType(main, " "))
  /\ UNCHANGED <<previewFrame, rAf>>

\* the keydown listener for Backspace
previewKeydownBackspace ==
  /\ prog = "preview"
  /\ main' = onBackspacePreview(main)
  /\ last' = Event("onBackspace",
                   IF MarkAt(main.marks, main.cursor) = -1 THEN "wrong"
                   ELSE "", "")
  /\ UNCHANGED <<previewFrame, rAf>>

\* the resize listener: cancelAnimationFrame, requestAnimationFrame
previewResize(vp) ==
  /\ prog = "preview"
  /\ viewport' = vp
  /\ rAf' = TRUE
  /\ last' = Event("resize", "", "")
  /\ UNCHANGED <<prog, shiftVars, call, user, now, engineVars, main,
                 fetchPending>>

\* the requested animation frame runs
previewResizeFrame ==
  /\ prog = "preview"
  /\ rAf
  /\ rAf' = FALSE
  /\ main' = resizeFramePreview(main, viewport)
  /\ last' = Event("layout", "", "")
  /\ UNCHANGED previewFrame

\* keyboards two words wide and wider than all six sentences
PreviewViewports ==
  { [inner |-> 420, kbd |-> 400], [inner |-> 2600, kbd |-> 2400] }

InitPreview ==
  /\ prog = "preview"
  /\ now = 1
  /\ viewport \in PreviewViewports
  /\ last = Event("init", "", "")
  /\ user = 0
  /\ call = noCall
  /\ shiftHeld = FALSE
  /\ shiftUI = noShift
  /\ engine = TypingEngine
  /\ ui = TypingUI
  /\ resizeTimer = FALSE
  /\ rafQueue = 0
  /\ main = GlobalsPreview
  /\ rAf = FALSE
  /\ fetchPending = FALSE

NextPreview ==
  \/ pickSentenceFrame
  \/ \E k \in Keys(CharAt(main.flatText, main.cursor)) : previewKeydownChar(k)
  \/ previewKeydownSpace
  \/ previewKeydownBackspace
  \/ \E vp \in PreviewViewports : previewResize(vp)
  \/ previewResizeFrame

SpecPreview == InitPreview /\ [][NextPreview]_vars

(***************************************************************************)
(* The system                                                              *)
(***************************************************************************)
\* the clock advances
Tick ==
  /\ now < 1 + MaxTicks * TickMs
  /\ now' = now + TickMs
  /\ last' = Event("tick", "", "")
  /\ UNCHANGED <<prog, shiftVars, call, user, viewport, engineVars, protoVars>>

\* the page after its script has run: the App constructor has reset the
\* engine and loadText(fallback) has thrown; the proto page has shown
\* "loading" and started the fetch of default.txt
InitOver(viewports) ==
  /\ prog \in {"engine", "proto"}
  /\ now = 1
  /\ viewport \in viewports
  /\ last = Event("init", "", "")
  /\ engine = IF prog = "engine" THEN loadText(reset(TypingEngine), fallback)
              ELSE TypingEngine
  /\ ui = TypingUI
  /\ resizeTimer = FALSE
  /\ rafQueue = 0
  /\ main = showStatusMessage(Globals, IF prog = "proto" THEN "loading"
                                       ELSE "initial")
  /\ rAf = FALSE
  /\ fetchPending = (prog = "proto")
  /\ user = 0
  /\ call = noCall
  /\ shiftHeld = FALSE
  /\ shiftUI = noShift

\* the events of both pages, for files out of texts and windows out of
\* viewports
NextOver(texts, viewports) ==
  \/ \E t \in texts : startNewSession(t)
  \/ \E vp \in viewports : AppResize(vp)
  \/ AppResizeTimer
  \/ AppLayoutFrame
  \/ \E k \in Keys(CharAt(engine.currentText, engine.cursor)) \cup {" "} :
       AppKeydown(k)
  \/ triggerBackspace
  \/ \E k \in Keys(CharAt(main.flatText, main.cursor)) : keydownChar(k)
  \/ keydownSpace
  \/ keydownBackspace
  \/ \E vp \in viewports : onResize(vp)
  \/ onResizeFrame
  \/ \E t \in texts : loadFromFile(t)
  \/ \E t \in texts : defaultTextLoaded(t)
  \/ defaultTextFailed

\* Typing and layout. No handler branches on the value of a timestamp, only
\* on its being null, so the clock stands still here; SpecClock lets it run
\* and has the event that only resets the timing (a file picker left empty).
Init == InitOver(Viewports)
Next == NextOver(RawTexts, Viewports)
Spec == Init /\ [][Next]_vars

\* Session timing: the clock runs, for one window size
ClockTexts     == { TextAB, TextEmpty }
ClockViewports == { [inner |-> 1100, kbd |-> 1000] }
InitClock == InitOver(ClockViewports)
NextClock ==
  Tick \/ loadFromFileNone \/ NextOver(ClockTexts, ClockViewports)
SpecClock == InitClock /\ [][NextClock]_vars

(***************************************************************************)
(* A session in which the user copies the text                             *)
(***************************************************************************)
\* texts of at least one word
SessionTexts == { TextAB, TextAbcDef, fallback, DEFAULT_TEXT_FALLBACK }

\* what the user types to copy words: the words, a space after each
copy(words) == IF words = <<>> THEN <<>> ELSE Join(words) \o <<" ">>

\* the keys of the user copying the text that was loaded
script == copy(IF prog = "engine" THEN engine.sourceWords
               ELSE main.sourceWords)

\* the page once a text has been loaded: startNewSession(text) of the
\* engine page, reader.onload of the proto page
InitSession ==
  /\ prog \in {"engine", "proto"}
  /\ now = 1
  /\ viewport \in Viewports
  /\ last = Event("init", "", "")
  /\ user = 0
  /\ call = noCall
  /\ shiftHeld = FALSE
  /\ shiftUI = noShift
  /\ \E text \in SessionTexts :
       /\ engine = IF prog = "engine"
                   THEN loadText(reset(TypingEngine), text)
                   ELSE TypingEngine
       /\ main = IF prog = "proto"
                 THEN applyDataset(Globals, parseCompiledText(text), viewport)
                 ELSE showStatusMessage(Globals, "initial")
  /\ ui = TypingUI
  /\ resizeTimer = FALSE
  /\ rafQueue = 0
  /\ rAf = FALSE
  /\ fetchPending = FALSE

\* time passes before each key
SessionTick ==
  /\ user < Len(script)
  /\ now < 1 + (user + 1) * TickMs
  /\ now' = now + TickMs
  /\ last' = Event("tick", "", "")
  /\ UNCHANGED <<prog, shiftVars, call, user, viewport, engineVars, protoVars>>

\* the next key of the script on the engine page, typed once the layout
\* that was requested has run
AppSessionKey ==
  /\ prog = "engine"
  /\ user < Len(script)
  /\ now = 1 + (user + 1) * TickMs
  /\ rafQueue = 0
  /\ triggerInput(script[user + 1])
  /\ UNCHANGED shiftUI
  /\ user' = user + 1

\* the next key of the script on the proto page
protoSessionKey ==
  /\ prog = "proto"
  /\ user < Len(script)
  /\ now = 1 + (user + 1) * TickMs
  /\ LET k == script[user + 1]
     IN  /\ main' = IF k = " " THEN handleSpaceKey(main, now, viewport)
                    ELSE onChar(main, k, now)
         /\ last' = IF k = " "
                    THEN Event("handleSpaceKey", " ", spaceKeyType(main))
                    ELSE Event("onChar", k, charType(main, k))
  /\ user' = user + 1
  /\ UNCHANGED <<prog, shiftVars, call, envVars, engineVars, rAf, fetchPending>>

NextSession ==
  SessionTick \/ AppSessionKey \/ protoSessionKey \/ AppLayoutFrame

\* the user keeps typing and requested animation frames run
SpecSession ==
  /\ InitSession
  /\ [][NextSession]_vars
  /\ WF_vars(SessionTick)
  /\ WF_vars(AppSessionKey)
  /\ WF_vars(protoSessionKey)
  /\ WF_vars(AppLayoutFrame)

(***************************************************************************)
(* The line fitting functions applied on their own                         *)
(***************************************************************************)
\* longest word sequence handed to a function
MaxWords == 3

\* words one, two and three glyphs wide
FitWords == { <<"a">>, <<"b", "c">>, <<"d", "e", "f">> }

\* the word sequences of at most n words
RECURSIVE Pools(_)
Pools(n) ==
  IF n = 0 THEN { <<>> }
  ELSE Pools(n - 1) \cup
       { Append(p, w) : p \in { q \in Pools(n - 1) : Len(q) = n - 1 },
                        w \in FitWords }

\* widths in pixels: none, narrower than a glyph, one glyph, the floor of
\* the engine's budget, two words to the pixel, and ample
Widths == { 0, 100, 120, 200, 300, 420, 1000 }

\* the flat text of the line shown when a function is applied
callText == Join(Take(call.words, call.kept))

\* the window in which the keyboard is call.width wide
callViewport == [inner |-> 1100, kbd |-> call.width]

\* src/unnamed/part_001: getKeyboardWidth
getKeyboardWidthOneLine(vp) ==
  IF vp.kbd # 0 THEN vp.kbd ELSE Min(820, vp.inner - 16)

\* src/unnamed/part_001: minWordsToKeepForCursor, 1 for an empty prefix
minWordsToKeepForCursorOneLine(text, caret) ==
  LET prefix == Take(text, caret)
  IN  IF prefix = <<>> THEN 1 ELSE Len(SplitOn(prefix, " "))

\* src/unnamed/part_001: keepCount of layoutOneLine
keepCountOneLine(sourceWords, flatText, cursor, vp) ==
  LET kbw          == getKeyboardWidthOneLine(vp)
      minKeep      == minWordsToKeepForCursorOneLine(flatText, cursor)
      wordsThatFit == fitWordsToWidth(sourceWords, kbw)
  IN  Min(Max(minKeep, Len(wordsThatFit)), Len(sourceWords))

\* the arguments: a word sequence, a line of its first words with the
\* cursor in it, and a width
InitFit ==
  /\ prog = "functions"
  /\ now = 1
  /\ viewport = [inner |-> 1100, kbd |-> 1000]
  /\ last = Event("init", "", "")
  /\ user = 0
  /\ engine = TypingEngine
  /\ ui = TypingUI
  /\ resizeTimer = FALSE
  /\ rafQueue = 0
  /\ main = Globals
  /\ rAf = FALSE
  /\ fetchPending = FALSE
  /\ shiftHeld = FALSE
  /\ shiftUI = noShift
  /\ \E words \in Pools(MaxWords), width \in Widths :
       \E kept \in 0..Len(words) :
         \E cursor \in 0..Len(Join(Take(words, kept))) :
           call = [noCall EXCEPT !.words = words, !.kept = kept,
                                 !.cursor = cursor, !.width = width]

\* a function is applied to the arguments
Apply(fn, result, count) ==
  /\ call.fn = "none"
  /\ call' = [call EXCEPT !.fn = fn, !.result = result, !.count = count]
  /\ last' = Event(fn, "", "")
  /\ UNCHANGED <<prog, shiftVars, user, envVars, engineVars, protoVars>>

\* fitWordsToWidth(words, limitPx), the same text in proto-1/main.js,
\* src/main.js and part_001
applyFitWordsToWidth ==
  LET result == fitWordsToWidth(call.words, call.width)
  IN  Apply("fitWordsToWidth", result, Len(result))

\* the measuring loop of recalculateLayout over the words, from offset 0
applyRecalculateLayout ==
  LET e      == [TypingEngine EXCEPT !.sourceWords = call.words]
      result == wordsForLine(e, callViewport)
  IN  Apply("recalculateLayout", result, Len(result))

\* minWordsToKeepForCursor of proto-1/main.js and src/main.js
applyMinWordsToKeepForCursor ==
  Apply("minWordsToKeepForCursor", <<>>,
        minWordsToKeepForCursor(callText, call.cursor))

\* minWordsToKeepForCursor of part_001
applyMinWordsToKeepForCursorOneLine ==
  Apply("minWordsToKeepForCursorOneLine", <<>>,
        minWordsToKeepForCursorOneLine(callText, call.cursor))

\* the current words of layoutThreeLines in proto-1/main.js
applyFitWordsToWidthWithMinimum ==
  LET minKeep == minWordsToKeepForCursor(callText, call.cursor)
      result  == fitWordsToWidthWithMinimum(call.words, call.width,
                                            Max(1, minKeep))
  IN  Apply("fitWordsToWidthWithMinimum", result, Len(result))

\* layoutOneLine of part_001
applyLayoutOneLine ==
  LET keepCount == keepCountOneLine(call.words, callText, call.cursor,
                                    callViewport)
  IN  Apply("layoutOneLine", Take(call.words, keepCount), keepCount)

NextFit ==
  \/ applyFitWordsToWidth
  \/ applyRecalculateLayout
  \/ applyMinWordsToKeepForCursor
  \/ applyMinWordsToKeepForCursorOneLine
  \/ applyFitWordsToWidthWithMinimum
  \/ applyLayoutOneLine

SpecFit == InitFit /\ [][NextFit]_vars

(***************************************************************************)
(* The parsers of a text, applied to raw texts                             *)
(***************************************************************************)
\* the longest raw text that is parsed
MaxRaw == 5

\* the characters of the raw texts: the heading mark, the two kinds of
\* whitespace and a letter
RawAlphabet == {"#", " ", "\n", "a"}

RawStrings(n) == UNION { [1..k -> RawAlphabet] : k \in 0..n }

InitParse ==
  /\ prog = "functions"
  /\ now = 1
  /\ viewport = [inner |-> 1100, kbd |-> 1000]
  /\ last = Event("init", "", "")
  /\ user = 0
  /\ engine = TypingEngine
  /\ ui = TypingUI
  /\ resizeTimer = FALSE
  /\ rafQueue = 0
  /\ main = Globals
  /\ rAf = FALSE
  /\ fetchPending = FALSE
  /\ shiftHeld = FALSE
  /\ shiftUI = noShift
  /\ \E raw \in RawStrings(MaxRaw) : call = [noCall EXCEPT !.raw = raw]

\* parseCompiledText(raw): the texts of the blocks
applyParseCompiledText ==
  LET result == parseCompiledText(call.raw)
  IN  Apply("parseCompiledText", result, Len(result))

\* TypingEngine.loadText(text): the source words
applyLoadText ==
  LET result == loadText(TypingEngine, call.raw).sourceWords
  IN  Apply("loadText", result, Len(result))

NextParse ==
  \/ applyParseCompiledText
  \/ applyLoadText

SpecParse == InitParse /\ [][NextParse]_vars

(***************************************************************************)
(* The virtual keyboard and the Shift keys                                 *)
(* (part_000 lines 467-507 and 525-561; proto-1/main.js lines 972-1000,    *)
(* 1177-1184 and 1342-1357; src/main.js lines 133-147 and 333-340)         *)
(***************************************************************************)
\* single-character keys of KEY_LAYOUT: a letter and a digit
LayoutKeys == { "a", "1" }
\* the other codes of the virtual keyboard
ControlCodes == { "space", "tab", "enter", "backspace", "shift" }

\* the entries of SHIFT_MAP for the keys of LayoutKeys
SHIFT_MAP == [code \in { "1" } |-> "!"]

\* /[a-z]/.test(code) and code.toUpperCase() for the keys of LayoutKeys
isLowerCaseLetter(code) == code = "a"
toUpperCase(code) == IF code = "a" THEN "A" ELSE code

\* the null that resolveOutput returns
noOutput == ""

\* TypingUI.toggleShift() of a click, and toggleShift(forceState) of the
\* physical key
toggleShift(s) ==
  [shiftActive |-> ~s.shiftActive, shiftSticky |-> ~s.shiftActive]
toggleShiftForced(s, forceState) == [s EXCEPT !.shiftActive = forceState]

\* the character TypingUI.handleVirtualKey makes of a character key, and
\* the Shift flags it leaves
uiResolve(s, code) ==
  IF s.shiftActive
  THEN [out |-> IF code \in DOMAIN SHIFT_MAP THEN SHIFT_MAP[code]
                ELSE toUpperCase(code),
        s   |-> IF ~s.shiftSticky THEN [s EXCEPT !.shiftActive = FALSE]
                ELSE s]
  ELSE [out |-> code, s |-> s]

\* TypingUI.handleVirtualKey: a click on a key of the virtual keyboard
uiHandleVirtualKey(code) ==
  /\ prog = "engine"
  /\ IF code = "shift"
     THEN /\ shiftUI' = toggleShift(shiftUI)
          /\ last' = Event("handleVirtualKey", code, "")
          /\ UNCHANGED <<prog, shiftHeld, call, user, envVars, engineVars,
                         protoVars>>
     ELSE IF code = "enter"
     THEN /\ last' = Event("handleVirtualKey", code, "")
          /\ UNCHANGED <<prog, shiftVars, call, user, envVars, engineVars,
                         protoVars>>
     ELSE IF code = "backspace" THEN triggerBackspace
     ELSE IF code = "space"
     THEN triggerInput(" ") /\ UNCHANGED <<user, shiftUI>>
     ELSE IF code = "tab"
     THEN triggerInput("  ") /\ UNCHANGED <<user, shiftUI>>
     ELSE /\ triggerInput(uiResolve(shiftUI, code).out)
          /\ shiftUI' = uiResolve(shiftUI, code).s
          /\ UNCHANGED user

\* the keydown and keyup listeners of the engine page for the Shift key
AppShiftDown ==
  /\ prog = "engine"
  /\ ~shiftHeld
  /\ shiftHeld' = TRUE
  /\ shiftUI' = toggleShiftForced(shiftUI, TRUE)
  /\ last' = Event("keydown", "Shift", "")
  /\ UNCHANGED <<prog, call, user, envVars, engineVars, protoVars>>

AppShiftUp ==
  /\ prog = "engine"
  /\ shiftHeld
  /\ shiftHeld' = FALSE
  /\ shiftUI' = toggleShiftForced(shiftUI, FALSE)
  /\ last' = Event("keyup", "Shift", "")
  /\ UNCHANGED <<prog, call, user, envVars, engineVars, protoVars>>

\* isShiftActive of proto-1/main.js and of src/main.js
isShiftActive(m) == m.shiftSticky \/ m.shiftPhysical

\* variant of resolveOutput that looks only at the sticky Shift
resolveOutputStickyOnly(m, code) ==
  IF code = "space" THEN [out |-> " ", m |-> m]
  ELSE IF code = "tab" THEN [out |-> "  ", m |-> m]
  ELSE IF code \in { "backspace", "enter" } THEN [out |-> noOutput, m |-> m]
  ELSE IF code = "shift"
  THEN [out |-> noOutput, m |-> [m EXCEPT !.shiftSticky = ~m.shiftSticky]]
  ELSE LET was == m.shiftSticky
       IN  [out |-> IF isLowerCaseLetter(code)
                    THEN (IF was THEN toUpperCase(code) ELSE code)
                    ELSE IF was /\ code \in DOMAIN SHIFT_MAP
                    THEN SHIFT_MAP[code] ELSE code,
            m   |-> IF m.shiftSticky /\ was
                    THEN [m EXCEPT !.shiftSticky = FALSE] ELSE m]

\* resolveOutput (the same text in proto-1/main.js and in src/main.js): the
\* output (out) and the globals it leaves (m)
resolveOutput(m, code) ==
  IF code = "space" THEN [out |-> " ", m |-> m]
  ELSE IF code = "tab" THEN [out |-> "  ", m |-> m]
  ELSE IF code \in { "backspace", "enter" } THEN [out |-> noOutput, m |-> m]
  ELSE IF code = "shift"
  THEN [out |-> noOutput, m |-> [m EXCEPT !.shiftSticky = ~m.shiftSticky]]
  ELSE LET was == isShiftActive(m)
       IN  [out |-> IF isLowerCaseLetter(code)
                    THEN (IF was THEN toUpperCase(code) ELSE code)
                    ELSE IF was /\ code \in DOMAIN SHIFT_MAP
                    THEN SHIFT_MAP[code] ELSE code,
            m   |-> IF m.shiftSticky /\ was
                    THEN [m EXCEPT !.shiftSticky = FALSE] ELSE m]

\* handleVirtualKey of proto-1/main.js
handleVirtualKey(code) ==
  /\ prog = "proto"
  /\ IF code = "backspace"
     THEN /\ main' = onBackspace(main)
          /\ last' = Event("onBackspace",
                           IF MarkAt(main.marks, main.cursor) = -1
                           THEN "wrong" ELSE "", "")
     ELSE IF code = "space"
     THEN /\ main' = handleSpaceKey(main, now, viewport)
          /\ last' = Event("handleSpaceKey", " ", spaceKeyType(main))
     ELSE LET r == resolveOutput(main, code)
          IN  IF r.out = noOutput
              THEN /\ main' = r.m
                   /\ last' = Event("handleVirtualKey", code, "")
              ELSE IF r.out = "  "
              THEN /\ main' = onChar(onChar(r.m, " ", now), " ", now)
                   /\ last' = Event("onChar", r.out, charType(r.m, " "))
              ELSE /\ main' = onChar(r.m, r.out, now)
                   /\ last' = Event("onChar", r.out, charType(r.m, r.out))
  /\ UNCHANGED <<protoFrame, rAf, fetchPending>>

\* handleVirtualKey of src/main.js
handleVirtualKeyPreview(code) ==
  /\ prog = "preview"
  /\ IF code = "backspace"
     THEN /\ main' = onBackspacePreview(main)
          /\ last' = Event("onBackspace",
                           IF MarkAt(main.marks, main.cursor) = -1
                           THEN "wrong" ELSE "", "")
     ELSE IF code = "space" /\ main.cursor = Len(main.flatText)
     THEN /\ \E shuffled \in Shuffles(currentSet(main)) :
               main' = advanceLinePreview(main, shuffled, viewport)
          /\ last' = Event("advanceLine", " ", "next-line")
     ELSE LET r == resolveOutput(main, code)
          IN  IF r.out = noOutput
              THEN /\ main' = r.m
                   /\ last' = Event("handleVirtualKey", code, "")
              ELSE IF r.out = "  "
              THEN /\ main' = onCharPreview(onCharPreview(r.m, " "), " ")
                   /\ last' = Event("onChar", r.out, charType(r.m, " "))
              ELSE /\ main' = onCharPreview(r.m, r.out)
                   /\ last' = Event("onChar", r.out, charType(r.m, r.out))
  /\ UNCHANGED <<previewFrame, rAf>>

\* the keydown and keyup listeners of both pages for the Shift key
keydownShift ==
  /\ prog \in { "proto", "preview" }
  /\ ~shiftHeld
  /\ shiftHeld' = TRUE
  /\ main' = [main EXCEPT !.shiftPhysical = TRUE]
  /\ last' = Event("keydown", "Shift", "")
  /\ UNCHANGED <<prog, shiftUI, call, user, envVars, engineVars, rAf,
                 fetchPending>>

keyupShift ==
  /\ prog \in { "proto", "preview" }
  /\ shiftHeld
  /\ shiftHeld' = FALSE
  /\ main' = [main EXCEPT !.shiftPhysical = FALSE]
  /\ last' = Event("keyup", "Shift", "")
  /\ UNCHANGED <<prog, shiftUI, call, user, envVars, engineVars, rAf,
                 fetchPending>>

\* the keydown listener of the engine page for the Enter key: the key is
\* longer than one character but excepted from the return, so its name is
\* given to triggerInput
AppKeydownEnter == AppKeydown("Enter")

\* the keydown listener of both pages for the Enter key: preventDefault
keydownEnter ==
  /\ prog \in { "proto", "preview" }
  /\ last' = Event("keydown", "Enter", "")
  /\ UNCHANGED <<prog, shiftVars, call, user, envVars, engineVars, protoVars>>

\* a text with a capital and a shifted symbol, in a window that shows it
\* as one line
KeyboardText     == <<"a", "A", " ", "1", "!">>
KeyboardViewport == [inner |-> 1100, kbd |-> 1000]

\* a page on which a text has been loaded and laid out: the engine page
\* after startNewSession and a layout, the proto page after reader.onload,
\* the page of src/main.js after the frame of init
InitKeyboard ==
  /\ prog \in { "engine", "proto", "preview" }
  /\ now = 1
  /\ viewport = KeyboardViewport
  /\ last = Event("init", "", "")
  /\ user = 0
  /\ call = noCall
  /\ shiftHeld = FALSE
  /\ shiftUI = noShift
  /\ engine = IF prog = "engine"
              THEN LET e == loadText(reset(TypingEngine), KeyboardText)
                   IN  setLineData(e, wordsForLine(e, viewport))
              ELSE TypingEngine
  /\ ui = IF prog = "engine" THEN [TypingUI EXCEPT !.textEl = renderAll(engine)]
          ELSE TypingUI
  /\ resizeTimer = FALSE
  /\ rafQueue = 0
  /\ main = IF prog = "proto"
            THEN applyDataset(Globals, parseCompiledText(KeyboardText),
                              viewport)
            ELSE IF prog = "preview"
            THEN pickSentencePreview([GlobalsPreview EXCEPT
                                        !.initFrame = FALSE],
                                     currentSet(GlobalsPreview), viewport)
            ELSE Globals
  /\ rAf = FALSE
  /\ fetchPending = FALSE

\* clicks on the virtual keyboard and the physical Shift and Enter keys
NextKeyboard ==
  \/ \E code \in LayoutKeys \cup ControlCodes : uiHandleVirtualKey(code)
  \/ AppShiftDown
  \/ AppShiftUp
  \/ \E code \in LayoutKeys \cup ControlCodes : handleVirtualKey(code)
  \/ \E code \in LayoutKeys \cup ControlCodes : handleVirtualKeyPreview(code)
  \/ keydownShift
  \/ keyupShift
  \/ AppKeydownEnter
  \/ keydownEnter

SpecKeyboard == InitKeyboard /\ [][NextKeyboard]_vars

(***************************************************************************)
(* The terms of the specification, read off the page that is loaded        *)
(***************************************************************************)
Line       == IF prog = "engine" THEN engine.currentText ELSE main.flatText
Cursor     == IF prog = "engine" THEN engine.cursor ELSE main.cursor
Marks      == IF prog = "engine" THEN engine.status ELSE main.marks
WordOffset == IF prog = "engine" THEN engine.wordOffset ELSE main.wordsOffset
SourceText == IF prog = "engine" THEN engine.sourceWords ELSE main.sourceWords
Summary    == IF prog = "engine" THEN ui.textEl ELSE main.textEl
StartTime  == IF prog = "engine" THEN engine.startTime
              ELSE main.typingStartTime
EndTime    == IF prog = "engine" THEN engine.endTime ELSE main.typingEndTime

\* indices that carry a mark before or after a step
MarkIndices == 0..(Max(Len(Line), Max(Len(Marks), Len(Marks'))) - 1)

\* the step is a call of inputChar / onChar with the character last'.arg
CharStep ==
  \/ last'.op = "triggerInput" /\ last'.arg # " "
  \/ last'.op = "onChar"
  \/ last'.op = "handleSpaceKey" /\ Line # <<>> /\ CharAt(Line, Cursor) = " "

\* the step is a call of inputSpace / handleSpaceKey
SpaceStep ==
  \/ last'.op = "triggerInput" /\ last'.arg = " "
  \/ last'.op = "handleSpaceKey"

\* the step is a call of backspace / onBackspace
BackspaceStep == last'.op \in {"triggerBackspace", "onBackspace"}

\* the step is a call of advanceLine
AdvanceStep ==
  \/ last'.op = "triggerInput" /\ last'.type = "next-line"
  \/ last'.op = "handleSpaceKey" /\ main.flatText # <<>>
       /\ \/ main.cursor = Len(main.flatText)
          \/ /\ CharAt(main.flatText, main.cursor) # " "
             /\ IndexOf(main.flatText, " ", main.cursor) = -1

\* the step is a layout pass run from an animation frame
LayoutStep == last'.op = "layout"

(***************************************************************************)
(* C1 .. C10                                                               *)
(***************************************************************************)
\* what C1 says of one step
C1_Step ==
  (CharStep /\ Line # <<>> /\ Cursor < Len(Line)) =>
    /\ Line' = Line
    /\ WordOffset' = WordOffset
    /\ \A i \in MarkIndices \ {Cursor} : MarkAt(Marks', i) = MarkAt(Marks, i)
    /\ IF last'.arg = CharAt(Line, Cursor)
       THEN MarkAt(Marks', Cursor) = 1 /\ Cursor' = Cursor + 1
       ELSE MarkAt(Marks', Cursor) = -1 /\ Cursor' = Cursor

\* C1: with a current Line and Cursor < line length, inputChar(c) with c the
\* character at Cursor marks it correct and moves Cursor on by exactly 1;
\* any other c marks it wrong and leaves Cursor; every other mark, the Line
\* and Word Offset are unchanged
C1_MatchDeterminism == [][C1_Step]_vars

\* a mismatch has been marked right after a match
C1_Witness ==
  /\ prog = "engine"
  /\ last.op = "triggerInput" /\ last.type = "wrong"
  /\ engine.cursor = 1
  /\ MarkAt(engine.status, 0) = 1
  /\ MarkAt(engine.status, 1) = -1

\* C2: in every reachable state 0 <= Cursor <= length of the current Line,
\* also when the Line is empty because no words remain
C2_CursorWithinLine == 0 <= Cursor /\ Cursor <= Len(Line)

\* what C3 says of one step
C3_Step ==
  (/\ SpaceStep
   /\ Line # <<>> /\ Cursor < Len(Line)
   /\ CharAt(Line, Cursor) # " "
   /\ IndexOf(Line, " ", Cursor) # -1) =>
    LET s == IndexOf(Line, " ", Cursor)
    IN  /\ \A i \in Cursor..(s - 1) :
             MarkAt(Marks', i) = IF MarkAt(Marks, i) = 1 THEN 1 ELSE -1
        /\ MarkAt(Marks', s) = 1
        /\ Cursor' = s + 1
        /\ \A i \in MarkIndices \ (Cursor..s) :
             MarkAt(Marks', i) = MarkAt(Marks, i)

\* C3: inputSpace where the character at Cursor is no space and the next
\* space is at index s: each index of [Cursor, s) becomes wrong unless it
\* was correct, s becomes correct, Cursor becomes s + 1, and the marks
\* outside [Cursor, s] are unchanged
C3_SkipWord == [][C3_Step]_vars

\* "abc def" after a space at Cursor 1: 1 and 2 wrong, 3 correct, Cursor 4
C3_Witness ==
  /\ last.type = "skip-word"
  /\ Line = TextAbcDef
  /\ Cursor = 4
  /\ MarkAt(Marks, 0) = 1
  /\ MarkAt(Marks, 1) = -1 /\ MarkAt(Marks, 2) = -1
  /\ MarkAt(Marks, 3) = 1

\* what C4 says of one step
C4_Step ==
  /\ (BackspaceStep /\ MarkAt(Marks, Cursor) = -1) =>
       /\ MarkAt(Marks', Cursor) = 0
       /\ Cursor' = Cursor
  /\ (/\ BackspaceStep
      /\ last.op \in {"triggerBackspace", "onBackspace"}
      /\ last.arg = "wrong"
      /\ Cursor > 0) => Cursor' = Cursor - 1

\* C4: whenever the mark at Cursor is wrong, also at Cursor 0, backspace
\* makes it pending and leaves Cursor; a second backspace right after it
\* moves Cursor back by 1 when Cursor > 0
C4_BackspaceClearsWrong == [][C4_Step]_vars

\* what C5 says of one step
C5_Step ==
  (BackspaceStep /\ MarkAt(Marks, Cursor) # -1) =>
    IF Cursor > 0
    THEN /\ Cursor' = Cursor - 1
         /\ MarkAt(Marks', Cursor - 1) = 0
         /\ \A i \in MarkIndices \ {Cursor - 1} :
              MarkAt(Marks', i) = MarkAt(Marks, i)
         /\ Line' = Line
         /\ WordOffset' = WordOffset
    ELSE /\ engine' = engine
         /\ main' = main

\* C5: backspace when the mark at Cursor is not wrong: with Cursor > 0 it
\* moves Cursor back by exactly 1 and makes the mark there pending, all
\* other marks, the Line and Word Offset unchanged; with Cursor = 0 it
\* changes nothing
C5_BackspaceStepsBack == [][C5_Step]_vars

\* a backspace has stepped back from Cursor 2 over a correct character
C5_Witness ==
  /\ prog = "proto"
  /\ last.op = "onBackspace" /\ last.arg = ""
  /\ main.cursor = 1
  /\ Len(main.marks) >= 2
  /\ MarkAt(main.marks, 0) = 1
  /\ MarkAt(main.marks, 1) = 0

\* what C6 says of one step
C6_Step ==
  /\ AdvanceStep =>
       /\ WordOffset' >= WordOffset
       /\ WordOffset' = WordOffset + Len(wordsFromText(Line))
  /\ WordOffset' <= Len(SourceText')

\* C6: advanceLine never decreases Word Offset, it adds the word count of
\* the Line that is current, and Word Offset <= Source Text length in every
\* state, also after session-complete
C6_WordOffsetAccounting == [][C6_Step]_vars

\* C7: after advanceLine with words remaining, once the next Line is
\* installed, Cursor = 0, every mark of the new Line is pending and the
\* Line begins with the Source Text word at index Word Offset
C7_Installed ==
  /\ Cursor' = 0
  /\ \A i \in 0..(Len(Line') - 1) : MarkAt(Marks', i) = 0
  /\ Line' # <<>>
  /\ wordsFromText(Line')[1] = SourceText'[WordOffset' + 1]

\* what C7 says of one step
C7_Step ==
  /\ (/\ prog = "proto" /\ AdvanceStep
      /\ WordOffset' < Len(SourceText')) => C7_Installed
  /\ (/\ prog = "engine" /\ LayoutStep
      /\ last.op = "triggerInput" /\ last.type = "next-line"
      /\ WordOffset < Len(SourceText)) => C7_Installed

C7_NextLineFresh == [][C7_Step]_vars

\* the user has copied the text, the session is complete and its summary
\* shows the elapsed time and the WPM
C8_Complete ==
  /\ SourceText # <<>>
  /\ WordOffset = Len(SourceText)
  /\ Summary.kind = "complete"
  /\ Summary.time # NULL
  /\ Summary.wpm # NULL

\* C8: for a Source Text of at least one word and any viewport width, typing
\* every expected character and a space at each line end eventually brings
\* Word Offset to exactly the Source Text length, session-complete and a
\* completion summary ("a b": 'a', space, 'b', space ends at Word Offset 2)
C8_CopyingCompletes == <>C8_Complete

\* what C9 says of one step
C9_Step ==
  LayoutStep =>
    IF Len(Line') >= Cursor
    THEN /\ Cursor' = Cursor
         /\ \A i \in 0..(Cursor - 1) : MarkAt(Marks', i) = 1
    ELSE Cursor' = Len(Line')

\* C9: with Cursor = k before a re-fit, a new Line of length >= k leaves
\* Cursor = k with every mark below k correct; a shorter new Line leaves
\* Cursor at the new Line's length
C9_RefitKeepsCursor == [][C9_Step]_vars

\* the Line is a line of the words at Word Offset: no advance is waiting
\* for its layout
LineAtOffset ==
  \E n \in 1..Len(SourceText) :
    /\ WordOffset + n <= Len(SourceText)
    /\ Line = Join(SubSeq(SourceText, WordOffset + 1, WordOffset + n))

\* what C10 says of one step
C10_Step ==
  (LayoutStep /\ LineAtOffset) =>
    /\ Len(Line') >= Cursor
    /\ Take(Line', Cursor) = Take(Line, Cursor)
    /\ Cursor' >= Cursor

\* C10: a re-fit after a resize, at any width, gives a Line at least as
\* long as the Cursor position before it that agrees with the old Line on
\* its first Cursor characters, and never reduces Cursor
C10_RefitKeepsTypedPrefix == [][C10_Step]_vars

(***************************************************************************)
(* The line fitter                                                         *)
(***************************************************************************)
\* the step applied the fitter: fitWordsToWidth, or the measuring loop of
\* recalculateLayout
FitterApplied == call.fn \in {"fitWordsToWidth", "recalculateLayout"}

\* C11: applied to a non-empty word sequence and any width budget >= 0, zero
\* and budgets below the first word's width included, the line fitter
\* returns at least one word; applied to an empty sequence it returns none
C11_FitterFloor ==
  FitterApplied =>
    /\ call.words # <<>> => Len(call.result) >= 1
    /\ call.words = <<>> => call.result = <<>>

\* the fitter has returned one word for a budget of zero
C11_Witness ==
  /\ call.fn = "fitWordsToWidth"
  /\ call.width = 0
  /\ Len(call.words) > 1
  /\ Len(call.result) = 1

\* the width of words set on one line: the width of the first word, plus
\* the space width plus the word width for each further word
RECURSIVE cumulativeWidth(_)
cumulativeWidth(ws) ==
  IF ws = <<>> THEN 0
  ELSE IF Len(ws) = 1 THEN measureText(ws[1])
  ELSE cumulativeWidth(SubSeq(ws, 1, Len(ws) - 1)) + SpacePx
       + measureText(ws[Len(ws)])

\* limitPx of the fitter applied, in hundredths of a pixel
limitPx100 ==
  IF call.fn = "recalculateLayout" THEN effectiveWidth100(callViewport)
  ELSE 100 * call.width

\* the lengths of the prefixes of the words that do not exceed limitPx
FittingPrefixes ==
  { k \in 1..Len(call.words) :
      100 * cumulativeWidth(Take(call.words, k)) <= limitPx100 }

\* the longest such prefix, or the first word alone when even it exceeds
LongestFittingPrefix ==
  IF FittingPrefixes = {} THEN Take(call.words, 1)
  ELSE Take(call.words,
            CHOOSE k \in FittingPrefixes : \A j \in FittingPrefixes : j <= k)

\* C12: the line fitter returns exactly the longest prefix of the word
\* sequence whose cumulative width does not exceed limitPx, a prefix whose
\* cumulative width equals limitPx exactly being included, and the first
\* word alone when even it exceeds limitPx; the result is a prefix of the
\* input
C12_LongestFittingPrefix ==
  FitterApplied => call.result = LongestFittingPrefix

\* fitWordsToWidth has returned two words as wide as limitPx to the pixel
C12_Witness ==
  /\ call.fn = "fitWordsToWidth"
  /\ Len(call.words) > 2
  /\ Len(call.result) = 2
  /\ cumulativeWidth(call.result) = call.width

(***************************************************************************)
(* The word floor of a re-fit                                              *)
(***************************************************************************)
\* the number of words with at least one character in text[0:cursor]
WordsLeftOfCursor ==
  Len(FilterNonEmpty(SplitOn(Take(callText, call.cursor), " ")))

WordsBegunLeftOfCursor ==
  WordsLeftOfCursor
    + (IF CharAt(callText, call.cursor - 1) = " " THEN 1 ELSE 0)

Pool == SliceFrom(SourceText, WordOffset)

\* the number of words the fitter returns for the pool at the current width
PoolFit ==
  IF prog = "engine" THEN Len(wordsForLine(engine, viewport))
  ELSE Len(fitWordsToWidth(
             Pool, Max(320, (82 * getKeyboardWidth(viewport)) \div 100)))

\* the number of words of a flat text
WordsIn(text) == Len(FilterNonEmpty(SplitOn(text, " ")))

\* what C14 says of one step
C14_Step ==
  LayoutStep =>
    WordsIn(Line') =
      Min(Len(Pool), Max(minWordsToKeepForCursor(Line, Cursor), PoolFit))

\* C14: on every layout pass the number of words placed in the current Line
\* equals min(pool length, max(minimumWordsToPreserve(old flat text, old
\* Cursor), number of words the fitter returns for the pool at the current
\* width))
C14_KeepCount == [][C14_Step]_vars

(***************************************************************************)
(* The current line while words remain                                     *)
(***************************************************************************)
\* the step is a load of a text
LoadStep ==
  last'.op \in {"startNewSession", "loadFromFile", "loadDefaultText",
                "pickSentence"}

\* a layout pass has completed in the step: the animation frame of a
\* re-fit, and on the pages that lay out inside the handler the load that
\* found words and the advance
LayoutPassStep ==
  \/ last'.op = "layout"
  \/ prog = "preview" /\ last'.op \in {"pickSentence", "advanceLine"}
  \/ prog = "proto" /\ AdvanceStep /\ Pool' # <<>>
  \/ prog = "proto" /\ LoadStep /\ last'.type # "none"
       /\ main'.exercises # <<>> /\ main'.sourceWords # <<>>

\* what C15 says of one step: the pass leaves a word in the line, and no
\* step but a load or an advance empties the line
C15_Step ==
  /\ LayoutPassStep /\ Pool' # <<>> => Line' # <<>>
  /\ ~LayoutPassStep /\ ~LoadStep /\ ~AdvanceStep /\ Line # <<>>
       /\ Pool' # <<>> => Line' # <<>>

\* C15: in every reachable state in which words remain unconsumed and a
\* layout pass has completed since the last load or advance, the current
\* Line contains at least one word, even when a single word is wider than
\* the budget: the user is never left with an empty current line while
\* text remains
C15_CurrentLineNonEmpty == [][C15_Step]_vars

(***************************************************************************)
(* The Mark Array                                                          *)
(***************************************************************************)
\* C16: in every reachable state the Mark Array has exactly one entry per
\* character of the current Line's flat string, and every entry is pending
\* (0), correct (1) or wrong (-1)
C16_OneMarkPerCharacter ==
  /\ Len(Marks) = Len(Line)
  /\ \A i \in 1..Len(Marks) : Marks[i] \in {0, 1, -1}

(***************************************************************************)
(* Loading a text                                                          *)
(***************************************************************************)
\* the step loads a text: startNewSession, or applyDataset from a file or
\* from the default text
TextLoadStep ==
  /\ last'.op \in {"startNewSession", "loadFromFile", "loadDefaultText"}
  /\ last'.type # "none"

\* the whitespace-separated non-empty tokens of the text loaded: the text
\* of startNewSession, the exercise strings of applyDataset
LoadedTokens ==
  IF prog = "engine" THEN wordsFromText(last'.arg)
  ELSE wordsFromText(joinLines(main'.exercises))

\* what C17 says of one step
C17_Step ==
  TextLoadStep =>
    /\ SourceText' = LoadedTokens
    /\ WordOffset' = 0
    /\ Cursor' = 0
    /\ \A i \in 1..Len(Marks') : Marks'[i] = 0
    /\ StartTime' = NULL
    /\ EndTime' = NULL
    /\ IF LoadedTokens # <<>> THEN Line' # <<>> ELSE Line' = <<>>

\* C17: loading a text sets Source Text to the whitespace-separated
\* non-empty tokens of the text in order and resets Word Offset to 0, Cursor
\* to 0, the Mark Array to all-pending and both Session Timing timestamps
\* to null; afterwards there is a current Line (in-progress) if the text has
\* at least one word, and none (no-text) otherwise
C17_LoadResets == [][C17_Step]_vars

(***************************************************************************)
(* C18: the start timestamp                                                *)
(***************************************************************************)
\* the step is a load of either page, loadFromFile without a file included
AnyLoadStep ==
  last'.op \in {"startNewSession", "loadFromFile", "loadDefaultText"}

\* the step is a key that was taken as a character of the line: a match, a
\* mismatch, or a space that skips the rest of a word
AcceptedInputStep ==
  /\ last'.op \in {"triggerInput", "onChar", "handleSpaceKey"}
  /\ last'.type \in {"correct", "wrong", "skip-word"}

\* what C18 says of one step
C18_Step ==
  /\ AnyLoadStep => StartTime' = NULL
  /\ (StartTime = NULL /\ AcceptedInputStep) => StartTime' = now
  /\ (StartTime = NULL /\ ~AcceptedInputStep) => StartTime' = NULL
  /\ (StartTime # NULL /\ ~AnyLoadStep) => StartTime' = StartTime

\* C18: the start timestamp is null after a load and stays null until the
\* first accepted character input (match or mismatch); that input sets it,
\* and no later operation changes it until the next load; ignored inputs
\* and backspace never set it
C18_StartTimestamp == [][C18_Step]_vars

\* a line was typed to its end, the file picker was emptied, and the space
\* that advances the line has started the timer
C18_Witness ==
  /\ prog = "proto"
  /\ last.op = "handleSpaceKey"
  /\ last.type = "next-line"
  /\ main.exercises = <<>>
  /\ StartTime # NULL

(***************************************************************************)
(* C19: the end timestamp                                                  *)
(***************************************************************************)
\* the step is the advanceLine that consumes the last words
CompletingStep ==
  /\ AdvanceStep
  /\ WordOffset < Len(SourceText)
  /\ WordOffset' >= Len(SourceText')

\* the elapsed time of the completion statistics, when they are shown
ElapsedShown == Summary.time

\* what C19 says of one step
C19_Step ==
  /\ WordOffset' < Len(SourceText') => EndTime' = NULL
  /\ CompletingStep => EndTime' = now
  /\ (EndTime # NULL /\ ~AnyLoadStep) => EndTime' = EndTime
  /\ Summary'.kind = "complete" => ElapsedShown' = EndTime' - StartTime'
  /\ (Summary.kind = "complete" /\ Summary'.kind = "complete"
      /\ ~AnyLoadStep) => ElapsedShown' = ElapsedShown

\* C19: the end timestamp is null while words remain unconsumed, is
\* captured exactly once, by the advanceLine that makes Word Offset reach
\* the length of Source Text, and never changes afterwards; the elapsed
\* time of the completion statistics is end minus start and does not change
\* after session-complete
C19_EndTimestamp == [][C19_Step]_vars

\* the completion statistics are shown a second time, after the clock has
\* advanced, and the end timestamp is still null
C19_Witness ==
  /\ prog = "engine"
  /\ Summary.kind = "complete"
  /\ ElapsedShown = TickMs
  /\ EndTime = NULL

(***************************************************************************)
(* C20: total required characters and the completion WPM                   *)
(***************************************************************************)
TotalChars == IF prog = "engine" THEN engine.totalChars
              ELSE main.totalRequiredChars

\* the lengths of the words plus one separating space between neighbours
RequiredChars(ws) == sumLengths(ws) + Max(Len(ws) - 1, 0)

\* the step shows the completion statistics
SummaryStep == Summary'.kind = "complete" /\ Summary' # Summary

\* what C20 says of one step
C20_Step ==
  /\ TotalChars' = RequiredChars(SourceText')
  /\ (SummaryStep /\ ElapsedShown' > 0)
       => Summary'.wpm = wpmTenths(RequiredChars(SourceText'), ElapsedShown')

\* C20: total required characters equals the sum of the lengths of the
\* Source Text words plus (number of words - 1) separating spaces, and the
\* completion WPM (here in tenths) equals (total required characters / 5) /
\* (elapsed minutes)
C20_TotalCharsAndWpm == [][C20_Step]_vars

\* "a b" (3 required characters) completed in 12 seconds: 3.0 WPM
C20_Witness ==
  /\ Summary.kind = "complete"
  /\ SourceText = <<<<"a">>, <<"b">>>>
  /\ TotalChars = 3
  /\ ElapsedShown = TickMs
  /\ Summary.wpm = 30

(***************************************************************************)
(* C21: characters that are ignored                                        *)
(***************************************************************************)
\* the step is inputChar / onChar with a character other than the space
\* while there is no current Line or the Cursor is at the line end
RejectedCharStep ==
  /\ CharStep
  /\ last'.arg # " "
  /\ Line = <<>> \/ Cursor >= Len(Line)

\* what C21 says of one step
C21_Step ==
  RejectedCharStep =>
    /\ last'.type = "ignore"
    /\ Cursor' = Cursor
    /\ Marks' = Marks
    /\ WordOffset' = WordOffset
    /\ Line' = Line
    /\ StartTime' = StartTime
    /\ EndTime' = EndTime

\* C21: inputChar with a non-space character when there is no current Line,
\* or when Cursor is already at line end, signals ignore and leaves Cursor,
\* the Mark Array, Word Offset, the Line and Session Timing unchanged
C21_RejectedCharIgnored == [][C21_Step]_vars

\* a character other than the space was typed at the end of a Line
C21_Witness ==
  /\ last.op \in {"triggerInput", "onChar"}
  /\ last.arg = "x"
  /\ last.type = "ignore"
  /\ Line # <<>>
  /\ Cursor = Len(Line)

(***************************************************************************)
(* C22: the space at the end of a line                                     *)
(***************************************************************************)
\* the step is a space pressed with the Cursor at the end of a Line
SpaceAtLineEndStep ==
  /\ SpaceStep
  /\ Line # <<>>
  /\ Cursor = Len(Line)

\* the number of words one run of advanceLine adds to Word Offset
AdvanceCount ==
  IF prog = "engine" THEN WordsIn(Line) ELSE main.currentWordCount

\* what C22 says of one step: Word Offset moves by one run of advanceLine;
\* the engine page leaves Cursor and marks to the layout that follows, the
\* proto page puts the line into the history with the marks it had
C22_Step ==
  SpaceAtLineEndStep =>
    /\ last'.type = "next-line"
    /\ WordOffset' = WordOffset + AdvanceCount
    /\ IF prog = "engine" THEN Cursor' = Cursor /\ Marks' = Marks
       ELSE main'.historyHTML = buildCurrentLineHTMLWithoutCursor(main)

\* C22: a space pressed while Cursor is at the end of a non-empty Line
\* signals advance-line and causes advanceLine to run exactly once for that
\* key press, with no mark or Cursor change made before the advance
C22_SpaceAtLineEndAdvancesOnce == [][C22_Step]_vars

\* a space at the end of a first line of one word has advanced the line
\* and a word remains
C22_Witness ==
  /\ last.op \in {"triggerInput", "handleSpaceKey"}
  /\ last.type = "next-line"
  /\ WordOffset = 1
  /\ WordOffset < Len(SourceText)

(***************************************************************************)
(* C23, C24, C25: the Shift state                                          *)
(***************************************************************************)
\* the terms of the specification for Shift, read off the page
ShiftActive == IF prog = "engine" THEN shiftUI.shiftActive
               ELSE isShiftActive(main)
StickyOn    == IF prog = "engine" THEN shiftUI.shiftSticky
               ELSE main.shiftSticky

\* the step is a click on the virtual key code
VirtualKeyStep(code) ==
  \/ uiHandleVirtualKey(code)
  \/ handleVirtualKey(code)
  \/ handleVirtualKeyPreview(code)

\* the character a key resolves to under a Shift state
Shifted(k)  == IF isLowerCaseLetter(k) THEN toUpperCase(k) ELSE SHIFT_MAP[k]
Resolved(k, active) == IF active THEN Shifted(k) ELSE k

\* what C23 says of one step
C23_Step ==
  /\ \A code \in (LayoutKeys \cup ControlCodes) \ { "shift" } :
       (StickyOn /\ VirtualKeyStep(code)) => ~StickyOn'
  /\ \A k \in LayoutKeys :
       (StickyOn /\ VirtualKeyStep(k)) =>
         /\ last'.arg = Shifted(k)
         /\ ShiftActive' = shiftHeld

\* C23: after a single virtual-keyboard Shift click makes Shift sticky, the
\* next virtual key press that is not Shift (character key, space, tab,
\* backspace or enter) releases it: sticky is off afterwards, and a
\* character key pressed while sticky was on is resolved as shifted exactly
\* once, the following character key being unshifted unless physical Shift
\* is held
C23_StickyReleased == [][C23_Step]_vars

\* the virtual space key was pressed while Shift was sticky, and it still is
C23_Witness ==
  /\ StickyOn
  /\ last.op \in {"triggerInput", "handleSpaceKey", "onChar"}
  /\ last.arg = " "

\* C24: in every reachable state Shift is active if and only if the sticky
\* toggle is on or physical Shift is held (logical OR); in particular
\* releasing physical Shift while sticky is on leaves Shift active, and
\* pressing a virtual character key while physical Shift is held leaves
\* Shift active for the next key
C24_ShiftActiveIsOr == ShiftActive <=> (StickyOn \/ shiftHeld)

\* physical Shift was released while the sticky toggle was on
C24_Witness ==
  /\ last.op = "keyup"
  /\ StickyOn
  /\ ~shiftHeld

\* what C25 says of one step: the key becomes the character of the Shift
\* state, and the mark at the Cursor is that of comparing this character
\* with the expected one
C25_Step ==
  \A k \in LayoutKeys :
    VirtualKeyStep(k) =>
      LET out == Resolved(k, ShiftActive)
      IN  /\ last'.arg = out
          /\ CharAt(Line, Cursor) # "" =>
               /\ last'.type = IF CharAt(Line, Cursor) = out THEN "correct"
                               ELSE "wrong"
               /\ MarkAt(Marks', Cursor) = IF CharAt(Line, Cursor) = out
                                           THEN 1 ELSE -1

PendingRefits ==
  IF prog = "engine" THEN (IF resizeTimer THEN 1 ELSE 0) + rafQueue
  ELSE IF rAf THEN 1 ELSE 0

\* the step is a resize event
ResizeStep == last'.op = "resize"

\* what C26 says of one step: never two re-fits pending, a resize event
\* leaves exactly one, and once the re-fit has run none is left
C26_Step ==
  /\ PendingRefits' <= 1
  /\ ResizeStep => PendingRefits' = 1
  /\ LayoutStep => PendingRefits' = 0

\* C26: at any moment at most one re-fit is pending: a resize event that
\* arrives while a re-fit is pending cancels and replaces it, so a burst of
\* n resize events before the callback runs causes exactly one re-fit,
\* using the latest width
C26_OneRefitPending == [][C26_Step]_vars

\* a resize event has arrived while the animation frame of an earlier
\* re-fit was pending, and both are pending now
C26_Witness ==
  /\ prog = "engine"
  /\ last.op = "resize"
  /\ resizeTimer
  /\ rafQueue = 1

(***************************************************************************)
(* C27: keys and the line that is installed                                *)
(***************************************************************************)
\* the step is a key of the typist
KeyStep == CharStep \/ SpaceStep \/ BackspaceStep

\* the Line is made of the words of Source Text that start at Word Offset:
\* none of its words has been added to Word Offset
LineUnconsumed ==
  \/ Line = <<>>
  \/ /\ WordOffset + WordsIn(Line) <= Len(SourceText)
     /\ Line = Join(Take(SliceFrom(SourceText, WordOffset), WordsIn(Line)))

\* what C27 says of one step: a key finds a Line that is not consumed, and
\* a space at the end of the line moves Word Offset over that Line only
C27_Step ==
  /\ KeyStep => LineUnconsumed
  /\ (SpaceStep /\ Line # <<>>) => WordOffset' <= Len(SourceText)

\* C27: every engine operation, including advanceLine's installation of
\* the next Line, completes before the next external event is processed:
\* no keystroke is ever evaluated against a Line whose words have already
\* been added to Word Offset, so two space presses arriving back to back at
\* a line end consume that line's words only once
C27_KeysSeeInstalledLine == [][C27_Step]_vars

\* two spaces at the end of the first line have moved Word Offset past the
\* words of the text while the layout of the first advance is pending
C27_Witness ==
  /\ prog = "engine"
  /\ last.op = "triggerInput"
  /\ last.type = "next-line"
  /\ rafQueue = 1
  /\ WordOffset = 2
  /\ Len(SourceText) = 2
  /\ WordsIn(Line) = 1

(***************************************************************************)
(* C28: the text of a session                                              *)
(***************************************************************************)
\* the step is the load of a file the user has selected (on the engine
\* page the constructor throws before it starts the fetch of default.txt,
\* so every startNewSession after it is one of the file picker)
UserLoadStep == last'.op \in {"startNewSession", "loadFromFile"}

\* what C28 says of one step: unless the user selects a file, a text that
\* has been loaded stays, Word Offset does not go back, the timestamps
\* that were taken stay, and only keys and layouts touch Cursor and marks
C28_Step ==
  (SourceText # <<>> /\ ~UserLoadStep) =>
    /\ SourceText' = SourceText
    /\ WordOffset' >= WordOffset
    /\ StartTime # NULL => StartTime' = StartTime
    /\ EndTime # NULL => EndTime' = EndTime
    /\ (~KeyStep /\ ~LayoutStep) => (Cursor' = Cursor /\ Marks' = Marks)

\* C28: once Source Text has been loaded for a session it does not change,
\* and Word Offset, Cursor, marks and timing are not reset, until the user
\* selects a new file: a default-text fetch or an earlier file read that
\* completes later never replaces the text of a session in which the user
\* is already typing or which came from a later user selection
C28_SessionTextStays == [][C28_Step]_vars

(***************************************************************************)
(* C29: the default text cannot be acquired                                *)
(***************************************************************************)
\* the step is the fetch of default.txt failing, or resolving with a text
\* that has no usable block
DefaultTextFailureStep ==
  /\ last'.op = "loadDefaultText"
  /\ last'.type \in {"failed", "empty"}

\* the words of the built-in fallback text of the page
FallbackWords ==
  IF prog = "engine" THEN cleanBox(SplitOn(fallback, "\n"))
  ELSE flattenWords(parseCompiledText(DEFAULT_TEXT_FALLBACK))

\* a first Line is current and nothing of it has been typed
FirstLineCurrent ==
  /\ Line # <<>>
  /\ WordOffset = 0
  /\ Cursor = 0
  /\ StartTime = NULL

\* the fallback text is loaded and a first Line of it is current
InProgressWithFallback == SourceText = FallbackWords /\ FirstLineCurrent

\* what C29 says of one step (no step changes the page, so the fallback
\* words are those of the state before)
C29_Step ==
  DefaultTextFailureStep =>
    (SourceText' = FallbackWords /\ FirstLineCurrent')

\* C29: if acquiring the default text fails (fetch error, non-OK response,
\* or a result with no usable blocks), the built-in fallback constant is
\* loaded and the engine becomes in-progress with it, and no failure path
\* leaves an uncaught error or a state in which input handling no longer
\* works. On the engine page the fallback is loaded by the constructor
\* before the fetch, so the page starts in progress with it.
C29_FallbackLoaded ==
  /\ (prog = "engine" => InProgressWithFallback)
  /\ [][C29_Step]_vars

\* the fetch has failed on the proto page and the fallback is in progress
C29_Witness ==
  /\ last.op = "loadDefaultText"
  /\ last.type = "failed"
  /\ InProgressWithFallback

(***************************************************************************)
(* C30: a file without exercise blocks                                     *)
(***************************************************************************)
\* the last load has yielded no block (engine: no word)
NoBlocks ==
  IF prog = "engine" THEN engine.sourceWords = <<>>
  ELSE main.exercises = <<>>

\* what C30 says of one step taken while no block is loaded
C30_Step ==
  NoBlocks =>
    /\ Line = <<>>
    /\ KeyStep => /\ Cursor' = Cursor
                  /\ Marks' = Marks
                  /\ WordOffset' = WordOffset

\* C30: after a loaded file yields zero usable exercise blocks (also when a
\* previous text was in progress), the engine is in no-text: there is no
\* current Line, and every inputChar, inputSpace and backspace is ignored,
\* leaving Cursor, marks and Word Offset unchanged, until a later load
\* yields at least one block
C30_NoTextIgnoresKeys == [][C30_Step]_vars

\* a file without blocks has been loaded over a text that was being typed,
\* and a key has been pressed since
C30_Witness ==
  /\ NoBlocks
  /\ SourceText # <<>>
  /\ last.op \in {"onChar", "handleSpaceKey", "onBackspace"}

(***************************************************************************)
(* C31: the end of the displayed text                                      *)
(***************************************************************************)
\* the step types the last character of the Line correctly
LastCharTypedStep ==
  /\ CharStep
  /\ Line # <<>>
  /\ Cursor + 1 = Len(Line)
  /\ last'.arg = CharAt(Line, Cursor)

\* the step moves on to a next Line
MovesOnStep == Line' # Line \/ WordOffset' # WordOffset

\* what C31 says of one step
C31_Step == LastCharTypedStep => MovesOnStep

\* C31: when the user finishes typing the displayed exercise text (the last
\* character of the line is typed correctly), the program moves to the next
\* exercise automatically
C31_AutomaticNextExercise == [][C31_Step]_vars

\* the last character of a Line has been typed and the Line is still shown
C31_Witness ==
  /\ last.op = "onChar"
  /\ last.type = "correct"
  /\ Line # <<>>
  /\ Cursor = Len(Line)

(***************************************************************************)
(* C32, C33: headings and blocks of a text                                 *)
(***************************************************************************)
\* a heading marker as the specification has it: one or more '#' and then
\* whitespace (the line is trimmed, as the parsers trim it)
HeadingMarker(line) ==
  \E k \in 1..(Len(line) - 1) :
    /\ \A j \in 1..k : line[j] = "#"
    /\ IsWs(line[k + 1])

\* the lines of a text that are not heading markers, as one text again
RECURSIVE withoutHeadingMarkers(_)
withoutHeadingMarkers(lines) ==
  IF lines = <<>> THEN <<>>
  ELSE IF HeadingMarker(Trim(Head(lines)))
  THEN withoutHeadingMarkers(Tail(lines))
  ELSE Head(lines) \o <<"\n">> \o withoutHeadingMarkers(Tail(lines))

\* the number of blocks that heading markers make of the lines: the runs of
\* content lines between them (open: the line before belongs to a run)
RECURSIVE markedBlocks(_, _)
markedBlocks(lines, open) ==
  IF lines = <<>> THEN 0
  ELSE LET line == Trim(Head(lines))
       IN  IF line = <<>> THEN markedBlocks(Tail(lines), open)
           ELSE IF HeadingMarker(line) THEN markedBlocks(Tail(lines), FALSE)
           ELSE (IF open THEN 0 ELSE 1) + markedBlocks(Tail(lines), TRUE)

\* the words that the parser applied has put into exercise text
ParsedWords ==
  IF call.fn = "loadText" THEN call.result ELSE flattenWords(call.result)

\* the words it makes of the text without its heading markers
WordsWithoutHeadingMarkers ==
  LET text == withoutHeadingMarkers(SplitOn(call.raw, "\n"))
  IN  IF call.fn = "loadText" THEN loadText(TypingEngine, text).sourceWords
      ELSE flattenWords(parseCompiledText(text))

\* C32: text parsing treats every line that starts with one or more '#'
\* characters followed by whitespace, including a single '#', as a heading
\* marker: it starts a new named block and is never part of any exercise
\* text
C32_HeadingMarkers ==
  /\ call.fn \in {"parseCompiledText", "loadText"} =>
       ParsedWords = WordsWithoutHeadingMarkers
  /\ call.fn = "parseCompiledText" =>
       call.count = markedBlocks(SplitOn(call.raw, "\n"), FALSE)

\* a text with a single-'#' heading line and a content line has been parsed
C32_Witness ==
  /\ call.fn = "parseCompiledText"
  /\ call.raw = <<"#", " ", "a", "\n", "a">>

\* every line of the raw text is blank or a heading line of parseCompiledText
OnlyHeadingsAndBlanks ==
  \A l \in 1..Len(SplitOn(call.raw, "\n")) :
    LET line == Trim(SplitOn(call.raw, "\n")[l])
    IN  line = <<>> \/ isHeading(line)

\* C33: text parsing returns only blocks that have at least one non-heading
\* content line: an input made solely of heading lines and blank lines
\* yields zero blocks, and each returned block's exercise string is its
\* content lines joined by single spaces
C33_BlocksHaveContent ==
  call.fn = "parseCompiledText" =>
    /\ OnlyHeadingsAndBlanks => call.result = <<>>
    /\ call.result =
         blockTexts(parseLines(SplitOn(call.raw, "\n"), <<>>, <<>>))

\* a text that is one heading line has been parsed
C33_Witness ==
  /\ call.fn = "parseCompiledText"
  /\ call.raw = <<"#", "#", " ", "a">>

(***************************************************************************)
(* C34: the space in the last word of a line                               *)
(***************************************************************************)
\* the step is a space pressed inside the last word of the Line
SpaceInLastWordStep ==
  /\ SpaceStep
  /\ Line # <<>> /\ Cursor < Len(Line)
  /\ CharAt(Line, Cursor) # " "
  /\ IndexOf(Line, " ", Cursor) = -1

\* what C34 says of one step
C34_Step ==
  SpaceInLastWordStep =>
    /\ \A i \in Cursor..(Len(Line) - 1) : MarkAt(Marks', i) = -1
    /\ Cursor' = Len(Line)
    /\ last'.type = "skip-word"
    /\ WordOffset' = WordOffset
    /\ Line' = Line

\* C34: a space pressed mid-word in the last word of the Line (no further
\* space in the flat string) marks the remaining characters wrong, sets
\* Cursor to the line end and signals skip-word; Word Offset and the Line
\* are unchanged by that key press, and the line is advanced only by a
\* subsequent space press
C34_SkipLastWord == [][C34_Step]_vars

\* the last word of a line has been skipped and the line is still current
C34_Witness ==
  /\ last.type = "skip-word"
  /\ Line # <<>>
  /\ Cursor = Len(Line)
  /\ MarkAt(Marks, Len(Line) - 1) = -1

(***************************************************************************)
(* C35: the Enter key                                                      *)
(***************************************************************************)
\* the step is an Enter key, clicked on the virtual keyboard or pressed
EnterStep ==
  \/ last'.op = "handleVirtualKey" /\ last'.arg = "enter"
  \/ last'.arg = "Enter"

\* what C35 says of one step (the page of src/main.js takes no timestamps)
C35_Step ==
  EnterStep =>
    /\ Cursor' = Cursor
    /\ Marks' = Marks
    /\ WordOffset' = WordOffset
    /\ Line' = Line
    /\ prog # "preview" => (StartTime' = StartTime /\ EndTime' = EndTime)

\* C35: an Enter key press, virtual or physical, is ignored: it changes
\* neither Cursor, the Mark Array, Word Offset, the Line nor Session Timing
C35_EnterIgnored == [][C35_Step]_vars

\* Enter has been pressed on the physical keyboard while a Line is typed
C35_Witness ==
  /\ last.arg = "Enter"
  /\ Line # <<>>
  /\ Cursor < Len(Line)

(***************************************************************************)
(* C36: the marks around the Cursor                                        *)
(***************************************************************************)
\* the mark shown for index i: an index without a mark is shown pending
ShownMark(i) == IF MarkAt(Marks, i) = undefined THEN 0 ELSE MarkAt(Marks, i)

\* C36: in every reachable state with a current Line, every mark at an
\* index greater than Cursor is pending, the mark at Cursor is pending or
\* wrong (never correct), and every mark at an index less than Cursor is
\* correct or wrong (never pending)
C36_MarksAroundCursor ==
  Line # <<>> =>
    \A i \in 0..(Len(Line) - 1) :
      /\ i > Cursor => ShownMark(i) = 0
      /\ i = Cursor => ShownMark(i) \in {0, -1}
      /\ i < Cursor => ShownMark(i) \in {1, -1}

\* a word has been skipped and a character mistyped after it
C36_Witness ==
  /\ Line # <<>>
  /\ Cursor > 0
  /\ ShownMark(0) = -1
  /\ ShownMark(Cursor) = -1

(***************************************************************************)
(* C37: leaving a line                                                     *)
(***************************************************************************)
\* the step runs advanceLine, on any of the three pages
AdvanceLineStep == AdvanceStep \/ last'.op = "advanceLine"

\* the Cursor when the step calls advanceLine: the proto page skips the
\* rest of the last word before the call
CursorAtAdvanceLine ==
  IF prog = "proto" /\ main.cursor # Len(main.flatText)
  THEN skipWord(main).cursor
  ELSE Cursor

\* the step loads a text, or picks the first sentences of src/main.js
LoadOrPickStep == AnyLoadStep \/ last'.op = "pickSentence"

\* what C37 says of one step that is no load
C37_Step ==
  ~LoadOrPickStep =>
    /\ WordOffset' # WordOffset => AdvanceLineStep
    /\ AdvanceLineStep => CursorAtAdvanceLine = Len(Line)
    /\ LastCharTypedStep => ~MovesOnStep

\* C37: Word Offset changes only through advanceLine, and advanceLine runs
\* only in states where Cursor equals the current Line's length; typing the
\* last character of a line never advances the line by itself, and no line
\* is left while a character of it has not been passed by the Cursor
C37_LineLeftAtItsEnd == [][C37_Step]_vars

\* advanceLine has run on the engine page without a current Line
C37_Witness ==
  /\ prog = "engine"
  /\ last.type = "next-line"
  /\ Line = <<>>
  /\ Cursor > 0

(***************************************************************************)
(* C38: after the session is complete                                      *)
(***************************************************************************)
\* Word Offset has reached the length of a Source Text that was loaded
SessionComplete == SourceText # <<>> /\ WordOffset >= Len(SourceText)

\* what C38 says of one step
C38_Step ==
  (SessionComplete /\ (KeyStep \/ ResizeStep \/ LayoutStep)) =>
    /\ WordOffset' = WordOffset
    /\ Cursor' = Cursor
    /\ Marks' = Marks
    /\ StartTime' = StartTime
    /\ EndTime' = EndTime
    /\ ~AdvanceStep

\* C38: session-complete is absorbing until the next load: once Word Offset
\* has reached Source Text length, every inputChar, inputSpace, backspace
\* and resize leaves Word Offset, Cursor, the Mark Array and both
\* timestamps unchanged, and advanceLine is not run again
C38_CompleteIsAbsorbing == [][C38_Step]_vars

\* a key has been pressed after the session was complete
C38_Witness ==
  /\ SessionComplete
  /\ EndTime # NULL
  /\ last.op \in {"triggerInput", "triggerBackspace", "onChar",
                  "handleSpaceKey", "onBackspace"}
  /\ last.type # "next-line"

(***************************************************************************)
(* A user who, after some typing, keeps pressing the space key             *)
(***************************************************************************)
\* a text is loaded, a Line of it is current and words remain
InProgress ==
  /\ SourceText # <<>>
  /\ Line # <<>>
  /\ WordOffset < Len(SourceText)

\* user = 0: the user types, deletes and resizes the window; user = 1: the
\* user does nothing but press space
StartSpaces ==
  /\ user = 0
  /\ user' = 1
  /\ last' = Event("spaces", "", "")
  /\ UNCHANGED <<prog, shiftVars, call, envVars, engineVars, protoVars>>

\* the space key of either page, pressed by the user who keeps pressing it
SpacePressed ==
  /\ user = 1
  /\ AppKeydown(" ") \/ keydownSpace

NextSpaces ==
  \/ StartSpaces
  \/ user = 0 /\ \E k \in Keys(CharAt(engine.currentText, engine.cursor))
                        \cup {" "} : AppKeydown(k)
  \/ user = 0 /\ triggerBackspace
  \/ user = 0 /\ \E vp \in Viewports : AppResize(vp)
  \/ user = 0 /\ \E k \in Keys(CharAt(main.flatText, main.cursor)) :
                   keydownChar(k)
  \/ user = 0 /\ keydownSpace
  \/ user = 0 /\ keydownBackspace
  \/ user = 0 /\ \E vp \in Viewports : onResize(vp)
  \/ SpacePressed
  \/ AppResizeTimer
  \/ AppLayoutFrame
  \/ onResizeFrame

\* a press of the space key acts: the user presses it, a session is in
\* progress, and the queue of frames has room for the layout of a new line
SpaceActs ==
  /\ user = 1
  /\ InProgress
  /\ prog = "engine" => rafQueue < MaxRaf

\* a layout frame is scheduled
FrameScheduled == rafQueue > 0 \/ rAf

\* weak fairness of SpacePressed, with SpaceActs (which implies that the
\* action is enabled and changes the state) in place of its enabling
\* condition: the space key is pressed again and again for as long as
\* pressing it acts
KeepsPressingSpace ==
  []<>(~SpaceActs) \/ []<><<user = 1 /\ SpaceStep>>_vars

\* weak fairness of AppLayoutFrame \/ onResizeFrame, with FrameScheduled
\* (their guards) in place of the enabling condition: a frame that is
\* scheduled runs
FramesRun == []<>(~FrameScheduled) \/ []<><<LayoutStep>>_vars

\* the space key is pressed again and again, and every layout callback
\* that was scheduled runs
SpecSpaces ==
  /\ InitSession
  /\ [][NextSpaces]_vars
  /\ KeepsPressingSpace
  /\ WF_vars(AppResizeTimer)
  /\ FramesRun

(***************************************************************************)
(* C39: pressing space to the end                                          *)
(***************************************************************************)
\* what C39 says of one space pressed in progress
C39_Step ==
  (SpaceStep /\ InProgress) =>
    \/ Cursor' > Cursor /\ WordOffset' = WordOffset
    \/ WordOffset' > WordOffset

NextAdvanceCount ==
  IF main.activeRow = 1 THEN main.line1WordCount ELSE main.line2WordCount

\* C40: in the three-line layout of src/main.js, in every state reached by
\* typing, resizes and line advances, the current line's flatText is the
\* space-join of the first K words of futureWordsPool(), K being the word
\* count advanceLine will add to wordsOffset
C40_LineIsPoolPrefix ==
  prog = "preview" =>
    main.flatText = Join(Take(futureWordsPoolPreview(main), NextAdvanceCount))

\* the advance has moved on to the next set of sentences and the line that
\* was adopted is not made of the first words of the pool
C40_Witness ==
  /\ prog = "preview"
  /\ last.op = "advanceLine"
  /\ main.sentenceIndex = 3
  /\ main.wordsOffset = 0
  /\ main.flatText # <<>>
  /\ NextAdvanceCount > 0
  /\ main.flatText # Join(Take(main.sourceWords, NextAdvanceCount))

==============================================================================
